---- MODULE Spec2Model ----
(***************************************************************************)
(* A model of the ears audio library: the preloaded Sound voice, the       *)
(* streaming Music voice with its background refill task, the libsndfile   *)
(* handle both read from, and the OpenAL source/buffer objects they drive. *)
(*                                                                         *)
(* The OpenAL calls are modelled as the OpenAL 1.1 specification defines   *)
(* them (section 4.6.3 for play/pause/stop, section 4.6.5 for buffer       *)
(* queues); the library reaches them through the bindings of openal.rs.    *)
(* Threads interleave at every sleep() and between the backend and file    *)
(* calls of the refill task: a sleep(50) is a lower bound on a delay and   *)
(* orders nothing.                                                         *)
(***************************************************************************)
EXTENDS Integers, Sequences, FiniteSets, TLC

VARIABLES
    sf_info,    \* SndInfo of the file "shot.wav": [frames, channels]
    sf_pos,     \* read position (in items) of the libsndfile handle; every
                \* clone of the SndFile shares the handle and so this position
    al_src,     \* OpenAL sources: id -> [alloc, state, queue, processed]
    al_buf,     \* OpenAL buffers: id -> [alloc, data]
    music,      \* the Music object of the program, or NoObj
    sound,      \* the Sound object of the program, or NoObj
    main,       \* the caller thread: [pc, pre] (its place inside play()/stop())
    loops,      \* the tasks spawned by process_music: id -> [pc, status, buf]
    returned,   \* the call that has just returned to the caller (NoCall as
                \* soon as any thread takes another step); for a constructor
                \* pre is the stage it stopped at: "open", "format", "backend",
                \* or "-" when it went through
    qlog,       \* what was queued on the Music source since the last play()
                \* started streaming: [next, ok], the file position the next
                \* non-empty chunk has to start at, and whether every chunk
                \* queued so far started where the one before it ended
    sf_handle,  \* the libsndfile handle of the latest SndFile::new: "-" (none,
                \* or sf_open returned null), "open" or "closed"
    sdata,      \* the SoundData objects behind an Rc: id -> [state, al_buffer,
                \* nb_sample, user_refs, deleted]
    snds,       \* the Sounds made by new_with_data: id -> [alive, al_source,
                \* sound_data]
    alc,        \* the ALC side of the backend: [current, ctx, dev, capt]
    scopes,     \* the tasks that use the library: id -> [stored, pc, clone]
    rec,        \* the Recorder of the program, or NoObj: [ctxt, stop_sender,
                \* data_receiver, samples, pc]
    rtasks,     \* the tasks spawned by Recorder::start: id -> [pc, stop_msgs,
                \* stop_tx, data_rx, samples, data]
    wavs,       \* the files written by save_to_file: name -> SndInfo
    params,     \* the parameters of the OpenAL sources: id -> [enum -> value]
    listener    \* the gain of the OpenAL listener

\* in returned, path is the path a constructor was given, the Sound or the
\* task a call was made on or in, or the SoundData a reference was dropped of;
\* res is what the call returned, for set_datas the SoundData it was given

\* the state of the one-voice program and of its streaming tasks
music_vars == <<sf_pos, music, sound, main, loops, qlog>>
\* the stores and the voices that share them
store_vars == <<sdata, snds>>
\* the contexts
ctx_vars == <<alc, scopes>>
\* the recorder, its tasks and its files
rec_vars == <<rec, rtasks, wavs>>
\* the parameters of the sources and of the listener
param_vars == <<params, listener>>

vars == <<sf_info, sf_pos, al_src, al_buf, music, sound, main, loops, returned, qlog,
          sf_handle, sdata, snds, alc, scopes, rec, rtasks, wavs, params, listener>>

----------------------------------------------------------------------------
(* Bounds of the model *)

\* the file holds 0 .. MaxChunks chunks, the last of them a short one
MaxChunks == 2
\* refill tasks that can be alive at once
MaxLoops == 2
\* buffers queued on one source
MaxQueue == 4
\* chunks of the file when a single play() streams it to its end
MaxStreamChunks == 5
\* OpenAL source names the backend can hand out
MaxSources == 2
\* OpenAL buffer names the backend can hand out
MaxBuffers == 3
\* SoundData objects the program makes
MaxDatas == 2
\* Sounds made by new_with_data that are alive at once
MaxSnds == 2
\* Rc references to one SoundData the caller holds at once
MaxRefs == 1
\* channel counts of the files a constructor is given: 1 .. MaxChannels
MaxChannels == 8
\* tasks that use the library
MaxScopes == 2
\* output devices (each with its context) the backend can open
MaxDevices == 2
\* capture devices the backend can open
MaxCaptures == 2
\* calls of one ALC destructor on one handle that are told apart
MaxCount == 2
\* tasks one Recorder spawns
MaxRecTasks == 2
\* samples one capture task accumulates
MaxSamples == 2
\* parameters of one source that differ from their defaults at once
MaxChanged == 1

(* Program constants *)

\* Music.sample_to_read
sample_to_read == 50000

HalfChunk == sample_to_read \div 2

\* the items of a file of n chunks: n - 1 whole chunks and half a chunk
FileItems(n) == IF n = 0 THEN 0 ELSE (n - 1) * sample_to_read + HalfChunk

SourceIds == 1..MaxSources
BufferIds == 1..MaxBuffers
LoopIds == 1..MaxLoops

\* the paths of the test suites: shot.wav exists, toto.wav does not
Paths == {"shot.wav", "toto.wav"}
FileExists(path) == path = "shot.wav"

ChannelChoices == {2, 3}

NoObj == [none |-> TRUE]
NoCall == [op |-> "-", path |-> "-", pre |-> "-", res |-> "-"]
NoSamples == [pos |-> 0, len |-> 0]

Min(a, b) == IF a < b THEN a ELSE b

RECURSIVE SeqToSet(_)
SeqToSet(s) == IF s = <<>> THEN {} ELSE {Head(s)} \cup SeqToSet(Tail(s))

----------------------------------------------------------------------------
(* libsndfile *)

\* items in the file: channels * frames
Items == sf_info.channels * sf_info.frames

\* sf_read_short(handle, array, items): the chunk read at position pos
sf_read(pos, items) == [pos |-> pos, len |-> Min(items, Items - pos)]

\* (mutant) the null handle is not checked
SndFile_new_Unchecked(path) == "Ok"

\* SndFile::new(path, Read): Err when sf_open returns a null handle
SndFile_new(path) == IF FileExists(path) THEN "Ok" ELSE "Err"

\* SndFile::read_i16 returns the count of items read
read_i16(pos, items) == sf_read(pos, items).len

----------------------------------------------------------------------------
(* OpenAL *)

FreshSource == [alloc |-> FALSE, state |-> "AL_INITIAL", queue |-> <<>>, processed |-> 0]
FreshBuffer == [alloc |-> FALSE, data |-> NoSamples]

FreeSources(src) == {s \in SourceIds : ~src[s].alloc}
FreeBuffers(buf) == {b \in BufferIds : ~buf[b].alloc}

SetMin(S) == CHOOSE x \in S : \A y \in S : x <= y

\* alGenSources(1, &id): the new name, 0 when the backend has none left
GenSourceId(src) == IF FreeSources(src) = {} THEN 0 ELSE SetMin(FreeSources(src))
alGenSources(src) ==
    IF GenSourceId(src) = 0 THEN src
    ELSE [src EXCEPT ![GenSourceId(src)] = [FreshSource EXCEPT !.alloc = TRUE]]

\* alGenBuffers(n, ids): all n names or none
RECURSIVE GenBufferIds(_, _)
GenBufferIds(buf, n) ==
    IF n = 0 THEN <<>>
    ELSE IF Cardinality(FreeBuffers(buf)) < n THEN [i \in 1..n |-> 0]
    ELSE LET b == SetMin(FreeBuffers(buf))
         IN <<b>> \o GenBufferIds([buf EXCEPT ![b].alloc = TRUE], n - 1)
alGenBuffers(buf, n) ==
    [b \in BufferIds |->
        IF b \in SeqToSet(GenBufferIds(buf, n))
        THEN [FreshBuffer EXCEPT !.alloc = TRUE] ELSE buf[b]]

ValidSource(src, s) == s \in SourceIds /\ src[s].alloc
ValidBuffer(buf, b) == b \in BufferIds /\ buf[b].alloc

\* a buffer attached to or queued on a source cannot be written
BufferInUse(src, b) == \E s \in SourceIds : src[s].alloc /\ b \in SeqToSet(src[s].queue)

\* alBufferData(buffer, format, data, size, freq)
alBufferData(src, buf, b, data) ==
    IF ValidBuffer(buf, b) /\ ~BufferInUse(src, b)
    THEN [buf EXCEPT ![b].data = data] ELSE buf

\* alSourcePlay: Initial, Stopped and Playing sources (re)start at the head of
\* the queue, a Paused source resumes where it was
alSourcePlay(src, s) ==
    IF ~ValidSource(src, s) THEN src
    ELSE IF src[s].state = "AL_PAUSED" THEN [src EXCEPT ![s].state = "AL_PLAYING"]
    ELSE [src EXCEPT ![s].state = "AL_PLAYING", ![s].processed = 0]

\* alSourcePause: only a Playing source changes
alSourcePause(src, s) ==
    IF ValidSource(src, s) /\ src[s].state = "AL_PLAYING"
    THEN [src EXCEPT ![s].state = "AL_PAUSED"] ELSE src

\* alSourceStop: a legal no-op on Initial and Stopped sources
alSourceStop(src, s) ==
    IF ValidSource(src, s) /\ src[s].state \in {"AL_PLAYING", "AL_PAUSED"}
    THEN [src EXCEPT ![s].state = "AL_STOPPED", ![s].processed = Len(src[s].queue)]
    ELSE src

\* alGetSourcei(source, AL_SOURCE_STATE)
alGetState(src, s) == src[s].state

\* alGetSourcei(source, AL_BUFFERS_PROCESSED)
BuffersProcessed(src, s) ==
    IF src[s].state = "AL_INITIAL" THEN 0
    ELSE IF src[s].state = "AL_STOPPED" THEN Len(src[s].queue)
    ELSE src[s].processed

\* alSourceUnqueueBuffers(source, 1, &buf): the head of the queue leaves it
alSourceUnqueueBuffers(src, s) ==
    IF ValidSource(src, s) /\ BuffersProcessed(src, s) > 0
    THEN [src EXCEPT ![s].queue = Tail(@),
                     ![s].processed = IF @ > 0 THEN @ - 1 ELSE 0]
    ELSE src
UnqueuedBuffer(src, s, old) ==
    IF ValidSource(src, s) /\ BuffersProcessed(src, s) > 0
    THEN Head(src[s].queue) ELSE old

\* alSourceQueueBuffers(source, n, bufs): all of bufs or none
alSourceQueueBuffers(src, buf, s, bufs) ==
    IF ValidSource(src, s) /\ \A i \in 1..Len(bufs) : ValidBuffer(buf, bufs[i])
    THEN [src EXCEPT ![s].queue = @ \o bufs] ELSE src

\* alSourcei(source, AL_BUFFER, b): legal on Initial and Stopped sources only;
\* b = 0 releases the whole queue
alSourcei_BUFFER(src, buf, s, b) ==
    IF ValidSource(src, s) /\ src[s].state \in {"AL_INITIAL", "AL_STOPPED"}
       /\ (b = 0 \/ ValidBuffer(buf, b))
    THEN [src EXCEPT ![s].queue = IF b = 0 THEN <<>> ELSE <<b>>,
                     ![s].processed = 0]
    ELSE src

\* the device consumes the current buffer of a Playing source; buffers of
\* length zero take no time, and past the last buffer the source is Stopped
RECURSIVE SkipEmpty(_, _, _)
SkipEmpty(buf, queue, k) ==
    IF k < Len(queue) /\ buf[queue[k + 1]].data.len = 0
    THEN SkipEmpty(buf, queue, k + 1) ELSE k
MixAdvance(src, buf, s) ==
    LET q == src[s].queue
        k0 == SkipEmpty(buf, q, src[s].processed)
        k1 == IF k0 < Len(q) THEN SkipEmpty(buf, q, k0 + 1) ELSE k0
    IN IF k1 >= Len(q)
       THEN [src EXCEPT ![s].state = "AL_STOPPED", ![s].processed = Len(q)]
       ELSE [src EXCEPT ![s].processed = k1]

\* the parameters of a source, by their enum. A float x is kept as 10 * x.
\* What alGenSources gives a new source (OpenAL 1.1, 4.3.2):
FloatMax == 1000
DefaultParams ==
    [AL_GAIN |-> 10, AL_MIN_GAIN |-> 0, AL_MAX_GAIN |-> 10, AL_PITCH |-> 10,
     AL_MAX_DISTANCE |-> FloatMax, AL_REFERENCE_DISTANCE |-> 10, AL_ROLLOFF_FACTOR |-> 10,
     AL_LOOPING |-> 0, AL_SOURCE_RELATIVE |-> 0,
     AL_POSITION |-> <<0, 0, 0>>, AL_DIRECTION |-> <<0, 0, 0>>]

\* al::get_channels_format
get_channels_format(channels) ==
    CASE channels = 1 -> "AL_FORMAT_MONO16"
      [] channels = 2 -> "AL_FORMAT_STEREO16"
      [] channels = 4 -> "AL_FORMAT_QUAD16"
      [] channels = 5 -> "AL_FORMAT_51CHN16"
      [] channels = 6 -> "AL_FORMAT_61CHN16"
      [] channels = 7 -> "AL_FORMAT_71CHN16"
      [] OTHER -> "None"

----------------------------------------------------------------------------
(* State queries of both voice kinds *)

\* get_state: the State the backend state code maps to
StateOf(al_state) ==
    CASE al_state = "AL_INITIAL" -> "Initial"
      [] al_state = "AL_PLAYING" -> "Playing"
      [] al_state = "AL_PAUSED" -> "Paused"
      [] al_state = "AL_STOPPED" -> "Stopped"

Music_get_state == StateOf(alGetState(al_src, music.al_source))
Music_is_playing == IF Music_get_state = "Playing" THEN TRUE ELSE FALSE

Sound_get_state == StateOf(alGetState(al_src, sound.al_source))
Sound_is_playing == IF Sound_get_state = "Playing" THEN TRUE ELSE FALSE

HasMusic == music # NoObj
HasSound == sound # NoObj

----------------------------------------------------------------------------
(* Construction *)

Ret(op, path, pre, res) == [op |-> op, path |-> path, pre |-> pre, res |-> res]

\* alDeleteBuffers(1, &b): a buffer still attached to a source is not deleted
alDeleteBuffers(src, buf, b) ==
    IF ValidBuffer(buf, b) /\ ~BufferInUse(src, b)
    THEN [buf EXCEPT ![b] = FreshBuffer] ELSE buf

\* the format match of SoundData::new
SoundData_format(channels) ==
    CASE channels = 1 -> "AL_FORMAT_MONO16"
      [] channels = 2 -> "AL_FORMAT_STEREO16"
      [] OTHER -> "None"

\* Music::new(path). al_err is what al::openal_has_error() reports after the
\* names were generated: an error whenever a name could not be generated, and
\* any error the backend has pending otherwise.
Music_new(path) ==
    /\ main.pc = "idle" /\ ~HasMusic /\ ~HasSound
    /\ UNCHANGED <<sf_info, sound, main, loops, qlog>>
    /\ IF SndFile_new(path) = "Err"
       THEN /\ UNCHANGED <<sf_pos, al_src, al_buf, music>>
            /\ sf_handle' = "-"
            /\ returned' = Ret("Music::new", path, "open", "None")
       ELSE \E al_err \in BOOLEAN :
            LET source_id == GenSourceId(al_src)
                buffer_ids == GenBufferIds(al_buf, 2)
                format == get_channels_format(sf_info.channels)
                ok == format # "None" /\ ~al_err
            IN /\ (source_id = 0 \/ buffer_ids[1] = 0) => al_err
               /\ sf_pos' = 0
               /\ al_src' = alGenSources(al_src)
               /\ al_buf' = alGenBuffers(al_buf, 2)
               /\ music' = IF ok
                           THEN [al_source |-> source_id,
                                 al_buffers |-> buffer_ids,
                                 sample_to_read |-> sample_to_read,
                                 sample_format |-> format]
                           ELSE NoObj
               /\ sf_handle' = "open"
               /\ returned' = Ret("Music::new", path,
                                  IF format = "None" THEN "format"
                                  ELSE IF al_err THEN "backend" ELSE "-",
                                  IF ok THEN "Some" ELSE "None")
    /\ UNCHANGED <<store_vars, ctx_vars, rec_vars, param_vars>>

\* Sound::new(path): SoundData::new(path), then Sound::new_with_data. data_err
\* and snd_err are what openal_has_error() reports in each of the two.
Sound_new(path) ==
    /\ main.pc = "idle" /\ ~HasMusic /\ ~HasSound
    /\ UNCHANGED <<sf_info, music, main, loops, qlog>>
    /\ IF SndFile_new(path) = "Err"
       THEN /\ UNCHANGED <<sf_pos, al_src, al_buf, sound>>
            /\ sf_handle' = "-"
            /\ returned' = Ret("Sound::new", path, "open", "None")
       ELSE \E data_err \in BOOLEAN, snd_err \in BOOLEAN :
            LET nb_sample == sf_info.channels * sf_info.frames
                samples == sf_read(0, nb_sample)
                format == SoundData_format(sf_info.channels)
                buffer_id == GenBufferIds(al_buf, 1)[1]
                buf1 == alBufferData(al_src, alGenBuffers(al_buf, 1), buffer_id, samples)
                data_ok == format # "None" /\ ~data_err
                source_id == GenSourceId(al_src)
                src1 == alSourcei_BUFFER(alGenSources(al_src), buf1, source_id, buffer_id)
                ok == data_ok /\ ~snd_err
            IN /\ (format # "None" /\ buffer_id = 0) => data_err
               /\ (data_ok /\ source_id = 0) => snd_err
               /\ sf_pos' = samples.len
               /\ al_src' = IF data_ok THEN src1 ELSE al_src
               /\ al_buf' = IF format = "None" THEN al_buf
                            ELSE IF data_ok /\ ~ok
                                 THEN alDeleteBuffers(src1, buf1, buffer_id)
                                 ELSE buf1
               /\ sound' = IF ok
                           THEN [al_source |-> source_id,
                                 sound_data |-> [al_buffer |-> buffer_id,
                                                 nb_sample |-> nb_sample]]
                           ELSE NoObj
               /\ sf_handle' = IF data_ok THEN "closed" ELSE "open"
               /\ returned' = Ret("Sound::new", path,
                                  IF format = "None" THEN "format"
                                  ELSE IF ok THEN "-" ELSE "backend",
                                  IF ok THEN "Some" ELSE "None")
    /\ UNCHANGED <<store_vars, ctx_vars, rec_vars, param_vars>>

----------------------------------------------------------------------------
(* Transport of the preloaded Sound *)

\* (mutant) play() starts every source
sound_play_source_All(src, s) ==
    [x \in SourceIds |-> IF src[x].alloc THEN alSourcePlay(src, x)[x] ELSE src[x]]

\* what play(), pause() and stop() of a Sound ask of the backend
sound_play_source(src, s) == alSourcePlay(src, s)
sound_pause_source(src, s) == alSourcePause(src, s)
sound_stop_source(src, s) == alSourceStop(src, s)

Sound_play ==
    /\ main.pc = "idle" /\ HasSound
    /\ al_src' = sound_play_source(al_src, sound.al_source)
    /\ returned' = Ret("Sound::play", "-", Sound_get_state, "()")
    /\ UNCHANGED <<sf_info, sf_pos, al_buf, music, sound, main, loops, qlog>>
    /\ UNCHANGED <<sf_handle, store_vars, ctx_vars, rec_vars, param_vars>>

Sound_pause ==
    /\ main.pc = "idle" /\ HasSound
    /\ al_src' = sound_pause_source(al_src, sound.al_source)
    /\ returned' = Ret("Sound::pause", "-", Sound_get_state, "()")
    /\ UNCHANGED <<sf_info, sf_pos, al_buf, music, sound, main, loops, qlog>>
    /\ UNCHANGED <<sf_handle, store_vars, ctx_vars, rec_vars, param_vars>>

Sound_stop ==
    /\ main.pc = "idle" /\ HasSound
    /\ al_src' = sound_stop_source(al_src, sound.al_source)
    /\ returned' = Ret("Sound::stop", "-", Sound_get_state, "()")
    /\ UNCHANGED <<sf_info, sf_pos, al_buf, music, sound, main, loops, qlog>>
    /\ UNCHANGED <<sf_handle, store_vars, ctx_vars, rec_vars, param_vars>>

----------------------------------------------------------------------------
(* Transport of the streaming Music *)

FreeLoops == {l \in LoopIds : loops[l].pc \in {"none", "exited"}}
AliveLoops == LoopIds \ FreeLoops

NoLoop == [pc |-> "none", status |-> "-", buf |-> 0]

\* the chunks of bufs, in order, appended to the stream q
RECURSIVE LogQueued(_, _, _)
LogQueued(q, buf, bufs) ==
    IF bufs = <<>> THEN q
    ELSE LET d == buf[Head(bufs)].data
             q1 == IF d.len = 0 \/ ~q.ok THEN q
                   ELSE IF d.pos = q.next THEN [next |-> d.pos + d.len, ok |-> TRUE]
                   ELSE [next |-> 0, ok |-> FALSE]
         IN LogQueued(q1, buf, Tail(bufs))

\* (mutant) a Paused voice is restarted like any other
play_resumes_Never(state) == FALSE

\* play(): the match on get_state() that resumes a Paused voice
play_resumes(state) == state = "Paused"

\* play(): the voice is stopped first when is_playing()
play_stops_first(playing) == playing

\* play(), up to the sleep(50) after alSourceStop or, for a Paused voice, whole
Music_play ==
    /\ main.pc = "idle" /\ HasMusic
    /\ IF play_resumes(Music_get_state)
       THEN /\ al_src' = alSourcePlay(al_src, music.al_source)
            /\ main' = main
            /\ returned' = Ret("Music::play", "-", Music_get_state, "()")
       ELSE /\ FreeLoops # {}
            /\ Len(al_src[music.al_source].queue) + 2 <= MaxQueue
            /\ al_src' = IF play_stops_first(Music_is_playing)
                         THEN alSourceStop(al_src, music.al_source) ELSE al_src
            /\ main' = [pc |-> "play_seek", pre |-> Music_get_state]
            /\ returned' = NoCall
    /\ UNCHANGED <<sf_info, sf_pos, al_buf, music, sound, loops, qlog>>
    /\ UNCHANGED <<sf_handle, store_vars, ctx_vars, rec_vars, param_vars>>

\* play(): self.file.seek(0, SeekSet)
Music_play_seek ==
    /\ main.pc = "play_seek"
    /\ sf_pos' = 0
    /\ main' = [main EXCEPT !.pc = "play_fill0"]
    /\ returned' = NoCall
    /\ UNCHANGED <<sf_info, al_src, al_buf, music, sound, loops, qlog>>
    /\ UNCHANGED <<sf_handle, store_vars, ctx_vars, rec_vars, param_vars>>

\* process_music(): "full buff1" (i = 0) and "full buff2" (i = 1)
Music_play_fill(i) ==
    /\ main.pc = (IF i = 0 THEN "play_fill0" ELSE "play_fill1")
    /\ LET samples == sf_read(sf_pos, music.sample_to_read)
       IN /\ sf_pos' = sf_pos + read_i16(sf_pos, music.sample_to_read)
          /\ al_buf' = alBufferData(al_src, al_buf, music.al_buffers[i + 1], samples)
    /\ main' = [main EXCEPT !.pc = IF i = 0 THEN "play_fill1" ELSE "play_start"]
    /\ returned' = NoCall
    /\ UNCHANGED <<sf_info, al_src, music, sound, loops, qlog>>
    /\ UNCHANGED <<sf_handle, store_vars, ctx_vars, rec_vars, param_vars>>

\* (mutant) play() has waited for the task to end
SpawnedLoop_Joined == [pc |-> "exited", status |-> "AL_STOPPED", buf |-> 0]

\* the state of a task right after spawn, once it has received the file
SpawnedLoop == [pc |-> "sleep", status |-> "AL_PLAYING", buf |-> 0]

\* process_music(): queue both buffers, start the source, spawn the task and
\* send it the file; play() returns
Music_play_start ==
    /\ main.pc = "play_start"
    /\ LET queued == alSourceQueueBuffers(al_src, al_buf, music.al_source, music.al_buffers)
       IN /\ al_src' = alSourcePlay(queued, music.al_source)
          /\ qlog' = IF queued = al_src THEN [next |-> 0, ok |-> TRUE]
                     ELSE LogQueued([next |-> 0, ok |-> TRUE], al_buf, music.al_buffers)
    /\ loops' = [loops EXCEPT ![SetMin(FreeLoops)] = SpawnedLoop]
    /\ main' = [pc |-> "idle", pre |-> "-"]
    /\ returned' = Ret("Music::play", "-", main.pre, "()")
    /\ UNCHANGED <<sf_info, sf_pos, al_buf, music, sound>>
    /\ UNCHANGED <<sf_handle, store_vars, ctx_vars, rec_vars, param_vars>>

\* (mutant) pause() stops the source
music_pause_source_Stops(src, s) == alSourceStop(src, s)

\* what pause() asks of the backend
music_pause_source(src, s) == alSourcePause(src, s)

Music_pause ==
    /\ main.pc = "idle" /\ HasMusic
    /\ al_src' = music_pause_source(al_src, music.al_source)
    /\ returned' = Ret("Music::pause", "-", Music_get_state, "()")
    /\ UNCHANGED <<sf_info, sf_pos, al_buf, music, sound, main, loops, qlog>>
    /\ UNCHANGED <<sf_handle, store_vars, ctx_vars, rec_vars, param_vars>>

\* (mutant) stop() pauses the source
music_stop_source_Pauses(src, s) == alSourcePause(src, s)

\* (mutant) stop() also releases the queue of the source
music_stop_source_Detaches(src, s) == alSourcei_BUFFER(alSourceStop(src, s), al_buf, s, 0)

\* what stop() asks of the backend
music_stop_source(src, s) == alSourceStop(src, s)

\* stop(), up to its sleep(50)
Music_stop ==
    /\ main.pc = "idle" /\ HasMusic
    /\ al_src' = music_stop_source(al_src, music.al_source)
    /\ main' = [pc |-> "stop_sleep", pre |-> Music_get_state]
    /\ returned' = NoCall
    /\ UNCHANGED <<sf_info, sf_pos, al_buf, music, sound, loops, qlog>>
    /\ UNCHANGED <<sf_handle, store_vars, ctx_vars, rec_vars, param_vars>>

\* stop() returns from its sleep(50)
Music_stop_return ==
    /\ main.pc = "stop_sleep"
    /\ main' = [pc |-> "idle", pre |-> "-"]
    /\ returned' = Ret("Music::stop", "-", main.pre, "()")
    /\ UNCHANGED <<sf_info, sf_pos, al_src, al_buf, music, sound, loops, qlog>>
    /\ UNCHANGED <<sf_handle, store_vars, ctx_vars, rec_vars, param_vars>>

----------------------------------------------------------------------------
(* The task spawned by process_music *)

\* (mutant) the while loop never ends
AfterPoll_NeverExits(status) == "sleep"

\* where the task goes once it has read the source state
AfterPoll(status) == IF status # "AL_STOPPED" THEN "sleep" ELSE "detach"

\* the refill is attempted when the status read at the end of the last turn
\* was Playing
refill_gate(status) == status = "AL_PLAYING"

\* the task wakes from sleep(50): with a processed buffer it unqueues one,
\* otherwise it goes on to read the source state
Loop_tick(l) ==
    /\ loops[l].pc = "sleep"
    /\ LET s == music.al_source
       IN IF refill_gate(loops[l].status) /\ BuffersProcessed(al_src, s) # 0
          THEN /\ al_src' = alSourceUnqueueBuffers(al_src, s)
               /\ loops' = [loops EXCEPT ![l].pc = "refill",
                                         ![l].buf = UnqueuedBuffer(al_src, s, @)]
          ELSE /\ al_src' = al_src
               /\ loops' = [loops EXCEPT ![l].status = alGetState(al_src, s),
                                         ![l].pc = AfterPoll(alGetState(al_src, s))]
    /\ returned' = NoCall
    /\ UNCHANGED <<sf_info, sf_pos, al_buf, music, sound, main, qlog>>
    /\ UNCHANGED <<sf_handle, store_vars, ctx_vars, rec_vars, param_vars>>

\* file.read_i16 on the task's clone of the SndFile, alBufferData,
\* alSourceQueueBuffers, then the source state is read. buf is dead after this
\* step (the next turn overwrites it before it reads it) and is cleared.
Loop_refill(l) ==
    /\ loops[l].pc = "refill"
    /\ LET s == music.al_source
           b == loops[l].buf
           samples == sf_read(sf_pos, music.sample_to_read)
           buf1 == alBufferData(al_src, al_buf, b, samples)
           queued == alSourceQueueBuffers(al_src, buf1, s, <<b>>)
       IN /\ sf_pos' = sf_pos + read_i16(sf_pos, music.sample_to_read)
          /\ al_buf' = buf1
          /\ al_src' = queued
          /\ qlog' = IF queued = al_src THEN qlog ELSE LogQueued(qlog, buf1, <<b>>)
          /\ loops' = [loops EXCEPT ![l] = [pc |-> AfterPoll(alGetState(queued, s)),
                                            status |-> alGetState(queued, s),
                                            buf |-> 0]]
    /\ returned' = NoCall
    /\ UNCHANGED <<sf_info, music, sound, main>>
    /\ UNCHANGED <<sf_handle, store_vars, ctx_vars, rec_vars, param_vars>>

\* (mutant) the task ends without releasing the queue
loop_detach_source_Keeps(src, s) == src

\* what the task asks of the backend after its while loop
loop_detach_source(src, s) == alSourcei_BUFFER(src, al_buf, s, 0)

\* after the while loop: al::alSourcei(al_source, AL_BUFFER, 0), and the task ends
Loop_detach(l) ==
    /\ loops[l].pc = "detach"
    /\ al_src' = loop_detach_source(al_src, music.al_source)
    /\ loops' = [loops EXCEPT ![l].pc = "exited"]
    /\ returned' = NoCall
    /\ UNCHANGED <<sf_info, sf_pos, al_buf, music, sound, main, qlog>>
    /\ UNCHANGED <<sf_handle, store_vars, ctx_vars, rec_vars, param_vars>>

----------------------------------------------------------------------------
(* The audio device *)

AlMix(s) ==
    /\ ValidSource(al_src, s) /\ al_src[s].state = "AL_PLAYING"
    /\ al_src' = MixAdvance(al_src, al_buf, s)
    /\ returned' = NoCall
    /\ UNCHANGED <<sf_info, sf_pos, al_buf, music, sound, main, loops, qlog>>
    /\ UNCHANGED <<sf_handle, store_vars, ctx_vars, rec_vars, param_vars>>

----------------------------------------------------------------------------
(* SoundData behind an Rc, and the Sounds that share it *)

DataIds == 1..MaxDatas
SndIds == 1..MaxSnds

\* state is "none", "live" or "dropped"; deleted says whether alDeleteBuffers
\* in the destructor deleted the buffer
NoData == [state |-> "none", al_buffer |-> 0, nb_sample |-> 0, user_refs |-> 0,
           deleted |-> FALSE]
NoSnd == [alive |-> FALSE, al_source |-> 0, sound_data |-> 0]

FreeDatas == {d \in DataIds : sdata[d].state = "none"}
FreeSnds == {v \in SndIds : ~snds[v].alive}

SndName(v) == ToString(v)
DataName(d) == ToString(d)

\* Rc::strong_count: the references of the caller and one for each Sound
StrongCount(sd, sn, d) ==
    sd[d].user_refs + Cardinality({v \in SndIds : sn[v].alive /\ sn[v].sound_data = d})

\* alDeleteSources(1, &s)
alDeleteSources(src, s) == IF ValidSource(src, s) THEN [src EXCEPT ![s] = FreshSource] ELSE src

\* impl Drop for SoundData, run by the Rc when the last reference to d is gone
SoundData_dropped(sd, sn, src, buf, d) ==
    IF d # 0 /\ sd[d].state = "live" /\ StrongCount(sd, sn, d) = 0
    THEN [sd EXCEPT ![d].state = "dropped",
                    ![d].deleted = ValidBuffer(buf, sd[d].al_buffer)
                                   /\ ~BufferInUse(src, sd[d].al_buffer)]
    ELSE sd
SoundData_drop_buf(sd, sn, src, buf, d) ==
    IF d # 0 /\ sd[d].state = "live" /\ StrongCount(sd, sn, d) = 0
    THEN alDeleteBuffers(src, buf, sd[d].al_buffer) ELSE buf

\* SoundData::new(path), and the Rc the caller wraps it in
SoundData_new(path) ==
    /\ FreeDatas # {}
    /\ UNCHANGED <<sf_info, al_src, music, sound, main, loops, qlog, snds, ctx_vars, rec_vars, param_vars>>
    /\ IF SndFile_new(path) = "Err"
       THEN /\ UNCHANGED <<sf_pos, al_buf, sdata>>
            /\ sf_handle' = "-"
            /\ returned' = Ret("SoundData::new", path, "open", "None")
       ELSE \E data_err \in BOOLEAN :
            LET nb_sample == sf_info.channels * sf_info.frames
                samples == sf_read(0, nb_sample)
                format == SoundData_format(sf_info.channels)
                buffer_id == GenBufferIds(al_buf, 1)[1]
                ok == format # "None" /\ ~data_err
            IN /\ (format # "None" /\ buffer_id = 0) => data_err
               /\ sf_pos' = samples.len
               /\ al_buf' = IF format = "None" THEN al_buf
                            ELSE alBufferData(al_src, alGenBuffers(al_buf, 1), buffer_id, samples)
               /\ sdata' = IF ok
                           THEN [sdata EXCEPT ![SetMin(FreeDatas)] =
                                    [state |-> "live", al_buffer |-> buffer_id,
                                     nb_sample |-> nb_sample, user_refs |-> 1,
                                     deleted |-> FALSE]]
                           ELSE sdata
               /\ sf_handle' = IF ok THEN "closed" ELSE "open"
               /\ returned' = Ret("SoundData::new", path,
                                  IF format = "None" THEN "format"
                                  ELSE IF ok THEN "-" ELSE "backend",
                                  IF ok THEN "Some" ELSE "None")

\* Sound::new_with_data(sound_data): the caller gives its own Rc (moved) or a
\* clone of it
Sound_new_with_data(d) ==
    /\ sdata[d].state = "live" /\ sdata[d].user_refs > 0 /\ FreeSnds # {}
    /\ \E moved \in BOOLEAN, snd_err \in BOOLEAN :
          LET v == SetMin(FreeSnds)
              source_id == GenSourceId(al_src)
              src1 == alSourcei_BUFFER(alGenSources(al_src), al_buf, source_id, sdata[d].al_buffer)
              sd1 == [sdata EXCEPT ![d].user_refs = IF moved THEN @ - 1 ELSE @]
              sn1 == IF snd_err THEN snds
                     ELSE [snds EXCEPT ![v] = [alive |-> TRUE, al_source |-> source_id,
                                               sound_data |-> d]]
          IN /\ source_id = 0 => snd_err
             /\ al_src' = src1
             /\ snds' = sn1
             /\ sdata' = SoundData_dropped(sd1, sn1, src1, al_buf, d)
             /\ al_buf' = SoundData_drop_buf(sd1, sn1, src1, al_buf, d)
             /\ returned' = Ret("Sound::new_with_data", SndName(v),
                                IF snd_err THEN "backend" ELSE "-",
                                IF snd_err THEN "None" ELSE "Some")
    /\ UNCHANGED <<sf_info, music_vars, sf_handle, ctx_vars, rec_vars, param_vars>>

\* impl Drop for Sound, then the Rc of the Sound is released
Sound_drop(v) ==
    /\ snds[v].alive
    /\ LET src1 == alDeleteSources(al_src, snds[v].al_source)
           sn1 == [snds EXCEPT ![v] = NoSnd]
           d == snds[v].sound_data
       IN /\ al_src' = src1
          /\ snds' = sn1
          /\ sdata' = SoundData_dropped(sdata, sn1, src1, al_buf, d)
          /\ al_buf' = SoundData_drop_buf(sdata, sn1, src1, al_buf, d)
    /\ returned' = Ret("Sound::drop", SndName(v), "-", "()")
    /\ UNCHANGED <<sf_info, music_vars, sf_handle, ctx_vars, rec_vars, param_vars>>

\* the caller lets go of one of its references to the SoundData d
Data_release(d) ==
    /\ sdata[d].state = "live" /\ sdata[d].user_refs > 0
    /\ LET sd1 == [sdata EXCEPT ![d].user_refs = @ - 1]
       IN /\ sdata' = SoundData_dropped(sd1, snds, al_src, al_buf, d)
          /\ al_buf' = SoundData_drop_buf(sd1, snds, al_src, al_buf, d)
    /\ returned' = Ret("Rc::drop", DataName(d), "-", "()")
    /\ UNCHANGED <<sf_info, al_src, music_vars, sf_handle, snds, ctx_vars, rec_vars, param_vars>>

\* Sound::get_datas(): a clone of the Rc of the Sound
Sound_get_datas(v) == snds[v].sound_data

\* the caller keeps what get_datas() returned
Sound_get_datas_kept(v) ==
    /\ snds[v].alive /\ sdata[Sound_get_datas(v)].user_refs < MaxRefs
    /\ sdata' = [sdata EXCEPT ![Sound_get_datas(v)].user_refs = @ + 1]
    /\ returned' = Ret("Sound::get_datas", SndName(v), "-", "Rc")
    /\ UNCHANGED <<sf_info, al_src, al_buf, music_vars, sf_handle, snds, ctx_vars, rec_vars, param_vars>>

\* the buffer the backend has attached to the source of the Sound v, 0 if none
BoundBuffer(src, v) ==
    IF src[snds[v].al_source].queue = <<>> THEN 0 ELSE Head(src[snds[v].al_source].queue)

Snd_get_state(v) == StateOf(alGetState(al_src, snds[v].al_source))
Snd_is_playing(v) == IF Snd_get_state(v) = "Playing" THEN TRUE ELSE FALSE

\* set_datas: if self.is_playing() { return; }
set_datas_refused(playing) == playing

\* Sound::set_datas(sound_data) on the Sound v, with the caller's Rc to d
\* (moved) or a clone of it
Sound_set_datas(v, d) ==
    /\ snds[v].alive /\ sdata[d].state = "live" /\ sdata[d].user_refs > 0
    /\ \E moved \in BOOLEAN :
          LET old == snds[v].sound_data
              sd1 == [sdata EXCEPT ![d].user_refs = IF moved THEN @ - 1 ELSE @]
          IN IF set_datas_refused(Snd_is_playing(v))
             THEN /\ UNCHANGED <<al_src, snds>>
                  /\ sdata' = SoundData_dropped(sd1, snds, al_src, al_buf, d)
                  /\ al_buf' = SoundData_drop_buf(sd1, snds, al_src, al_buf, d)
             ELSE LET src1 == alSourcei_BUFFER(al_src, al_buf, snds[v].al_source,
                                               sdata[d].al_buffer)
                      sn1 == [snds EXCEPT ![v].sound_data = d]
                  IN /\ al_src' = src1
                     /\ snds' = sn1
                     /\ sdata' = SoundData_dropped(sd1, sn1, src1, al_buf, old)
                     /\ al_buf' = SoundData_drop_buf(sd1, sn1, src1, al_buf, old)
    /\ returned' = Ret("Sound::set_datas", SndName(v), Snd_get_state(v), DataName(d))
    /\ UNCHANGED <<sf_info, music_vars, sf_handle, ctx_vars, rec_vars, param_vars>>

\* play(), pause() and stop() of the Sound v
Snd_play(v) ==
    /\ snds[v].alive
    /\ al_src' = sound_play_source(al_src, snds[v].al_source)
    /\ returned' = Ret("Sound::play", SndName(v), Snd_get_state(v), "()")
    /\ UNCHANGED <<sf_info, al_buf, music_vars, sf_handle, store_vars, ctx_vars, rec_vars, param_vars>>

Snd_pause(v) ==
    /\ snds[v].alive
    /\ al_src' = sound_pause_source(al_src, snds[v].al_source)
    /\ returned' = Ret("Sound::pause", SndName(v), Snd_get_state(v), "()")
    /\ UNCHANGED <<sf_info, al_buf, music_vars, sf_handle, store_vars, ctx_vars, rec_vars, param_vars>>

Snd_stop(v) ==
    /\ snds[v].alive
    /\ al_src' = sound_stop_source(al_src, snds[v].al_source)
    /\ returned' = Ret("Sound::stop", SndName(v), Snd_get_state(v), "()")
    /\ UNCHANGED <<sf_info, al_buf, music_vars, sf_handle, store_vars, ctx_vars, rec_vars, param_vars>>

----------------------------------------------------------------------------
(* The OpenAL context of internal.rs: OpenAlData, kept in task-local data *)

ScopeIds == 1..MaxScopes
DeviceIds == 1..MaxDevices
CaptureIds == 1..MaxCaptures

\* ALC objects. A device and the context created on it carry the same number;
\* 0 is the null pointer. calls counts alcDestroyContext / alcCloseDevice /
\* alcCaptureCloseDevice on the handle, up to MaxCount; log is the sequence of
\* these calls made by the latest destructor of an OpenAlData.
FreshAlcObject == [state |-> "none", calls |-> 0]
NoAlc == [current |-> 0,
          log |-> <<>>,
          ctx |-> [d \in DeviceIds |-> FreshAlcObject],
          dev |-> [d \in DeviceIds |-> FreshAlcObject],
          capt |-> [k \in CaptureIds |-> FreshAlcObject]]

Called(o) == [o EXCEPT !.calls = Min(@ + 1, MaxCount)]

\* alcOpenDevice(null): the new device, null when the backend has none
FreeDevices(a) == {d \in DeviceIds : a.dev[d].state = "none"}
alcOpenDevice_id(a) == IF FreeDevices(a) = {} THEN 0 ELSE SetMin(FreeDevices(a))
alcOpenDevice(a) ==
    IF alcOpenDevice_id(a) = 0 THEN a
    ELSE [a EXCEPT !.dev[alcOpenDevice_id(a)].state = "open"]

\* alcCreateContext(device, null)
alcCreateContext(a, d) == [a EXCEPT !.ctx[d].state = "live"]

\* alcMakeContextCurrent(context)
alcMakeContextCurrent(a, c) == [a EXCEPT !.current = c]

\* alcGetCurrentContext()
alcGetCurrentContext(a) == a.current

\* alcDestroyContext(context). Destroying the current context is an error in
\* OpenAL 1.1 and releases it in other implementations: lenient says which.
alcDestroyContext(a, c, lenient) ==
    LET a1 == [a EXCEPT !.ctx[c] = Called(@), !.log = Append(@, "alcDestroyContext")]
    IN IF a.ctx[c].state # "live" THEN a1
       ELSE IF a.current # c THEN [a1 EXCEPT !.ctx[c].state = "destroyed"]
       ELSE IF lenient THEN [a1 EXCEPT !.ctx[c].state = "destroyed", !.current = 0]
       ELSE a1

\* alcCloseDevice(device): refused while the device has a context
alcCloseDevice(a, d) ==
    LET a1 == [a EXCEPT !.dev[d] = Called(@), !.log = Append(@, "alcCloseDevice")]
    IN IF a.dev[d].state = "open" /\ a.ctx[d].state # "live"
       THEN [a1 EXCEPT !.dev[d].state = "closed"] ELSE a1

\* alcCaptureOpenDevice(null, 44100, AL_FORMAT_MONO16, 44100)
FreeCaptures(a) == {k \in CaptureIds : a.capt[k].state = "none"}
alcCaptureOpenDevice_id(a) == IF FreeCaptures(a) = {} THEN 0 ELSE SetMin(FreeCaptures(a))
alcCaptureOpenDevice(a) ==
    IF alcCaptureOpenDevice_id(a) = 0 THEN a
    ELSE [a EXCEPT !.capt[alcCaptureOpenDevice_id(a)].state = "open"]

\* alcCaptureCloseDevice(device)
alcCaptureCloseDevice(a, k) ==
    LET a1 == [a EXCEPT !.capt[k] = Called(@), !.log = Append(@, "alcCaptureCloseDevice")]
    IN IF a.capt[k].state = "open" THEN [a1 EXCEPT !.capt[k].state = "closed"] ELSE a1

\* impl Drop for OpenAlData
OpenAlData_drop(a, o, lenient) ==
    LET a1 == alcDestroyContext([a EXCEPT !.log = <<>>], o.al_context, lenient)
        a2 == IF o.al_capt_device # 0 THEN alcCaptureCloseDevice(a1, o.al_capt_device) ELSE a1
    IN alcCloseDevice(a2, o.al_device)

\* a task: what its local data key al_context holds, where it is inside
\* is_input_context_init with the clone it made there, and the RecordContext
\* of its first and of its latest successful init_in (0: none yet)
NoScope == [stored |-> NoObj, pc |-> "idle", clone |-> NoObj, rc_first |-> 0, rc_last |-> 0]

\* OpenAlData::new(): the stage that fails, if one does
NewOutcomes == {"ok", "device", "context", "current"}
OpenAlData_new_alc(a, outcome) ==
    LET d == alcOpenDevice_id(a)
        a1 == alcOpenDevice(a)
        a2 == alcCreateContext(a1, d)
    IN IF outcome = "device" THEN a
       ELSE IF outcome = "context" THEN a1
       ELSE IF outcome = "current" THEN a2
       ELSE alcMakeContextCurrent(a2, d)
OpenAlData_new_data(a) ==
    [al_context |-> alcOpenDevice_id(a), al_device |-> alcOpenDevice_id(a), al_capt_device |-> 0]

\* (mutant) the context is created on every call
check_skips_Never(current, stored) == FALSE

\* check_al_context: nothing is created when a context is current or the
\* task has one stored
check_skips(current, stored) == current # 0 \/ stored # NoObj

\* OpenAlData::check_al_context in task s: the backend, the task, and the result
check_al_context_alc(s, outcome) ==
    IF check_skips(alcGetCurrentContext(alc), scopes[s].stored) THEN alc
    ELSE OpenAlData_new_alc(alc, outcome)
check_al_context_stored(s, outcome) ==
    IF check_skips(alcGetCurrentContext(alc), scopes[s].stored) THEN scopes[s].stored
    ELSE IF outcome = "ok" THEN OpenAlData_new_data(alc) ELSE NoObj
check_al_context_ok(s, outcome) ==
    check_skips(alcGetCurrentContext(alc), scopes[s].stored) \/ outcome = "ok"

\* the outcomes OpenAlData::new() can have in the backend state a
Outcomes(a) == IF alcOpenDevice_id(a) = 0 THEN {"device"} ELSE NewOutcomes

ScopeName(s) == ToString(s)

\* init() in task s
init(s) ==
    /\ scopes[s].pc = "idle"
    /\ \E outcome \in Outcomes(alc) :
          /\ alc' = check_al_context_alc(s, outcome)
          /\ scopes' = [scopes EXCEPT ![s].stored = check_al_context_stored(s, outcome)]
          /\ returned' = Ret("init", ScopeName(s),
                             IF alcGetCurrentContext(alc) # 0 THEN "current"
                             ELSE IF scopes[s].stored # NoObj THEN "stored" ELSE "none",
                             IF check_al_context_ok(s, outcome) THEN "true" ELSE "false")
    /\ UNCHANGED <<sf_info, al_src, al_buf, music_vars, sf_handle, store_vars, rec_vars, param_vars>>

\* init_in() in task s, up to the clone of the stored OpenAlData that
\* is_input_context_init makes; it returns None from here when
\* check_al_context fails or the task has nothing stored
init_in(s) ==
    /\ scopes[s].pc = "idle"
    /\ \E outcome \in Outcomes(alc) :
          LET created == alcGetCurrentContext(alc) = 0
              alc1 == IF created THEN check_al_context_alc(s, outcome) ELSE alc
              stored1 == IF created THEN check_al_context_stored(s, outcome)
                         ELSE scopes[s].stored
              ok == ~created \/ check_al_context_ok(s, outcome)
              pre == IF alcGetCurrentContext(alc) # 0 THEN "current"
                     ELSE IF scopes[s].stored # NoObj THEN "stored" ELSE "none"
          IN /\ alc' = alc1
             /\ IF ok /\ stored1 # NoObj
                THEN /\ scopes' = [scopes EXCEPT ![s].stored = stored1,
                                                 ![s].pc = pre,
                                                 ![s].clone = stored1]
                     /\ returned' = NoCall
                ELSE /\ scopes' = [scopes EXCEPT ![s].stored = stored1]
                     /\ returned' = Ret("init_in", ScopeName(s), pre, "None")
    /\ UNCHANGED <<sf_info, al_src, al_buf, music_vars, sf_handle, store_vars, rec_vars, param_vars>>

\* the clone made by is_input_context_init goes out of scope
clone_drop(a, o, lenient) == OpenAlData_drop(a, o, lenient)

\* is_input_context_init from the clone on: the capture device is there
\* already, or ALC_EXT_CAPTURE is missing, or alcCaptureOpenDevice fails, or
\* the capture device is opened and the clone replaces the stored OpenAlData,
\* whose destructor runs; in the other cases the destructor of the clone runs
init_in_finish(s) ==
    /\ scopes[s].pc # "idle"
    /\ \E ext \in BOOLEAN, lenient \in BOOLEAN :
          LET new_context == scopes[s].clone
              k == alcCaptureOpenDevice_id(alc)
              back == [scopes[s] EXCEPT !.pc = "idle", !.clone = NoObj]
          IN IF new_context.al_capt_device # 0
             THEN /\ alc' = clone_drop(alc, new_context, lenient)
                  /\ scopes' = [scopes EXCEPT ![s] =
                        [back EXCEPT !.rc_last = new_context.al_capt_device,
                                     !.rc_first = IF @ = 0 THEN new_context.al_capt_device ELSE @]]
                  /\ returned' = Ret("init_in", ScopeName(s), scopes[s].pc, "Some")
             ELSE IF ~ext \/ k = 0
             THEN /\ alc' = clone_drop(alc, new_context, lenient)
                  /\ scopes' = [scopes EXCEPT ![s] = back]
                  /\ returned' = Ret("init_in", ScopeName(s), scopes[s].pc, "None")
             ELSE /\ alc' = OpenAlData_drop(alcCaptureOpenDevice(alc), scopes[s].stored, lenient)
                  /\ scopes' = [scopes EXCEPT ![s] =
                        [back EXCEPT !.stored = [new_context EXCEPT !.al_capt_device = k],
                                     !.rc_last = k,
                                     !.rc_first = IF @ = 0 THEN k ELSE @]]
                  /\ returned' = Ret("init_in", ScopeName(s), scopes[s].pc, "Some")
    /\ UNCHANGED <<sf_info, al_src, al_buf, music_vars, sf_handle, store_vars, rec_vars, param_vars>>

\* the task s ends: its local data is destroyed
scope_exit(s) ==
    /\ scopes[s].pc = "idle" /\ scopes[s].stored # NoObj
    /\ \E lenient \in BOOLEAN :
          alc' = OpenAlData_drop(alc, scopes[s].stored, lenient)
    /\ scopes' = [scopes EXCEPT ![s] = NoScope]
    /\ returned' = NoCall
    /\ UNCHANGED <<sf_info, al_src, al_buf, music_vars, sf_handle, store_vars, rec_vars, param_vars>>

----------------------------------------------------------------------------
(* The Recorder of recorder.rs and the tasks its start() spawns *)

RecTaskIds == 1..MaxRecTasks

\* a task of start(): pc is "none", "loop" (in the while loop), "send" (after
\* it), "done" or "failed"; stop_msgs counts the messages waiting in its stop
\* channel, stop_tx and data_rx say whether the Recorder still holds the
\* Sender of that channel and the Receiver of the data channel; samples is
\* what the task has captured (a sample is the id of its task and the number
\* of the pull that took it from the device), data says whether the samples
\* wait in the data channel, and capt is the last call the task has made on
\* the capture device ("-", "alcCaptureStart" or "alcCaptureStop")
NoRecTask == [pc |-> "none", stop_msgs |-> 0, stop_tx |-> FALSE, data_rx |-> FALSE,
              samples |-> <<>>, data |-> FALSE, capt |-> "-"]
SpawnedRecTask == [pc |-> "loop", stop_msgs |-> 0, stop_tx |-> TRUE, data_rx |-> TRUE,
                   samples |-> <<>>, data |-> FALSE, capt |-> "alcCaptureStart"]

FreeRecTasks == {t \in RecTaskIds : rtasks[t].pc = "none"}
LiveRecTasks == {t \in RecTaskIds : rtasks[t].pc \in {"loop", "send"}}

\* Recorder::new(record_context)
Recorder_new(k) ==
    /\ rec = NoObj
    /\ rec' = [ctxt |-> k, stop_sender |-> 0, data_receiver |-> 0, samples |-> <<>>,
               pc |-> "idle"]
    /\ returned' = Ret("Recorder::new", "-", "-", "Recorder")
    /\ UNCHANGED <<sf_info, al_src, al_buf, music_vars, sf_handle, store_vars, ctx_vars>>
    /\ UNCHANGED <<rtasks, wavs, param_vars>>

\* the channel ends start() overwrites are dropped
start_drops_old(tasks, old_stop, old_data) ==
    [t \in RecTaskIds |->
        [tasks[t] EXCEPT !.stop_tx = IF t = old_stop THEN FALSE ELSE @,
                         !.data_rx = IF t = old_data THEN FALSE ELSE @]]

\* Recorder::start(), called in task s
Recorder_start(s) ==
    /\ rec # NoObj /\ rec.pc = "idle" /\ FreeRecTasks # {}
    /\ LET t == SetMin(FreeRecTasks)
       IN /\ rtasks' = [start_drops_old(rtasks, rec.stop_sender, rec.data_receiver)
                           EXCEPT ![t] = SpawnedRecTask]
          /\ rec' = [rec EXCEPT !.stop_sender = t, !.data_receiver = t]
    /\ returned' = Ret("Recorder::start", ScopeName(s), "-", "()")
    /\ UNCHANGED <<sf_info, al_src, al_buf, music_vars, sf_handle, store_vars, ctx_vars>>
    /\ UNCHANGED <<wavs, param_vars>>

\* stop_receiver.try_recv() is Data(_) when a message waits; Empty and
\* Disconnected both take the `_` arm
try_recv_Data(msgs) == msgs > 0

\* alcCaptureSamples into tmp_buf: the block the task t pulls after n samples
tmp_buf(t, n) == << <<t, n + 1>> >>

\* (mutant) the accumulator holds the latest block only
push_all_move_Replaces(samples, block) == block

\* samples.push_all_move(tmp_buf)
push_all_move(samples, block) == samples \o block

\* one turn of the while loop of the task: the samples the device has are
\* taken, then the stop channel is polled and, on a message, the capture is
\* stopped
Capture_turn(t) ==
    /\ rtasks[t].pc = "loop"
    /\ \E available_samples \in 0..1 :
          /\ available_samples # 0 => Len(rtasks[t].samples) < MaxSamples
          /\ rtasks' = [rtasks EXCEPT
                ![t].samples = IF available_samples # 0
                               THEN push_all_move(@, tmp_buf(t, Len(@))) ELSE @,
                ![t].capt = IF try_recv_Data(rtasks[t].stop_msgs)
                            THEN "alcCaptureStop" ELSE @,
                ![t].stop_msgs = IF try_recv_Data(@) THEN @ - 1 ELSE @,
                ![t].pc = IF try_recv_Data(rtasks[t].stop_msgs) THEN "send" ELSE "loop"]
    /\ returned' = NoCall
    /\ UNCHANGED <<sf_info, al_src, al_buf, music_vars, sf_handle, store_vars, ctx_vars>>
    /\ UNCHANGED <<rec, wavs, param_vars>>

\* data_sender.send(samples), which fails the task when the Receiver is gone;
\* the task ends
Capture_send(t) ==
    /\ rtasks[t].pc = "send"
    /\ rtasks' = [rtasks EXCEPT ![t].data = rtasks[t].data_rx,
                                ![t].pc = IF rtasks[t].data_rx THEN "done" ELSE "failed"]
    /\ returned' = NoCall
    /\ UNCHANGED <<sf_info, al_src, al_buf, music_vars, sf_handle, store_vars, ctx_vars>>
    /\ UNCHANGED <<rec, wavs, param_vars>>

\* Recorder::stop(), called in task s, up to d_p.recv(): false when stop_sender is None;
\* s_c.send(true) fails the caller when the task has ended
Recorder_stop(s) ==
    /\ rec # NoObj /\ rec.pc = "idle"
    /\ IF rec.stop_sender = 0
       THEN /\ returned' = Ret("Recorder::stop", ScopeName(s), "never", "false")
            /\ UNCHANGED <<rec, rtasks>>
       ELSE IF rec.stop_sender \in LiveRecTasks
       THEN /\ rtasks' = [rtasks EXCEPT ![rec.stop_sender].stop_msgs = @ + 1]
            /\ rec' = [rec EXCEPT !.pc = "stop_recv"]
            /\ returned' = NoCall
       ELSE /\ rec' = [rec EXCEPT !.pc = "failed"]
            /\ rtasks' = rtasks
            /\ returned' = Ret("Recorder::stop", ScopeName(s), "started", "fail")
    /\ UNCHANGED <<sf_info, al_src, al_buf, music_vars, sf_handle, store_vars, ctx_vars>>
    /\ UNCHANGED <<wavs, param_vars>>

\* stop(): self.samples = d_p.recv()
stop_stores(old, received) == received

\* Recorder::stop() from d_p.recv() on: it blocks until the samples are there
Recorder_stop_recv ==
    /\ rec # NoObj /\ rec.pc = "stop_recv"
    /\ rtasks[rec.data_receiver].data
    /\ rec' = [rec EXCEPT !.samples = stop_stores(@, rtasks[rec.data_receiver].samples),
                          !.pc = "idle"]
    /\ rtasks' = [rtasks EXCEPT ![rec.data_receiver].data = FALSE]
    /\ returned' = Ret("Recorder::stop", "-", "started", "true")
    /\ UNCHANGED <<sf_info, al_src, al_buf, music_vars, sf_handle, store_vars, ctx_vars>>
    /\ UNCHANGED <<wavs, param_vars>>

FileNames == {"hello_file"}
file_ext(filename) == filename \o ".wav"
WavNames == {file_ext(f) : f \in FileNames}
NoFile == [written |-> FALSE]

\* (mutant) save_to_file writes whatever it has
save_refused_Never(len) == FALSE

\* save_to_file: if self.samples.len() == 0 { false }
save_refused(len) == len = 0

\* the SndInfo save_to_file opens the file with, and what it writes
SavedFile(samples) ==
    [written |-> TRUE,
     infos |-> [frames |-> Len(samples), samplerate |-> 44100, channels |-> 1,
                format |-> {"FormatPcm16", "FormatWav"}],
     items |-> samples]

\* Recorder::save_to_file(filename); open_ok is whether sf_open gives a handle
Recorder_save_to_file(filename) ==
    /\ rec # NoObj /\ rec.pc = "idle"
    /\ \E open_ok \in BOOLEAN :
          IF save_refused(Len(rec.samples))
          THEN /\ wavs' = wavs
               /\ returned' = Ret("Recorder::save_to_file", filename, "empty", "false")
          ELSE IF open_ok
          THEN /\ wavs' = [wavs EXCEPT ![file_ext(filename)] = SavedFile(rec.samples)]
               /\ returned' = Ret("Recorder::save_to_file", filename, "-", "true")
          ELSE /\ wavs' = wavs
               /\ returned' = Ret("Recorder::save_to_file", filename, "open", "false")
    /\ UNCHANGED <<sf_info, al_src, al_buf, music_vars, sf_handle, store_vars, ctx_vars>>
    /\ UNCHANGED <<rec, rtasks, param_vars>>

----------------------------------------------------------------------------
(* The parameters of AudioController (Music and Sound) and of the listener *)

FloatParams == {"volume", "min_volume", "max_volume", "pitch", "max_distance",
                "reference_distance", "attenuation"}
BoolParams == {"looping", "relative"}
VecParams == {"position", "direction"}
Params == FloatParams \cup BoolParams \cup VecParams
VoiceKinds == {"Music", "Sound"}

\* the values a caller passes: floats as 10 * x
FloatInputs == {-10, 5}
VecInputs == {<<10, -10, 5>>}
Inputs(p) == IF p \in FloatParams THEN FloatInputs
             ELSE IF p \in BoolParams THEN BOOLEAN ELSE VecInputs

\* the enum the setter of a parameter passes to the backend
set_enum(p) ==
    CASE p = "volume" -> "AL_GAIN"
      [] p = "min_volume" -> "AL_MIN_GAIN"
      [] p = "max_volume" -> "AL_MAX_GAIN"
      [] p = "looping" -> "AL_LOOPING"
      [] p = "pitch" -> "AL_PITCH"
      [] p = "relative" -> "AL_SOURCE_RELATIVE"
      [] p = "position" -> "AL_POSITION"
      [] p = "direction" -> "AL_DIRECTION"
      [] p = "max_distance" -> "AL_MAX_DISTANCE"
      [] p = "reference_distance" -> "AL_REFERENCE_DISTANCE"
      [] p = "attenuation" -> "AL_ROLLOFF_FACTOR"

\* (mutant) get_min_volume reads the maximal gain
get_enum_Swapped(p) ==
    IF p = "min_volume" THEN "AL_MAX_GAIN" ELSE set_enum(p)

\* the enum the getter of a parameter passes to the backend
get_enum(p) ==
    CASE p = "volume" -> "AL_GAIN"
      [] p = "min_volume" -> "AL_MIN_GAIN"
      [] p = "max_volume" -> "AL_MAX_GAIN"
      [] p = "looping" -> "AL_LOOPING"
      [] p = "pitch" -> "AL_PITCH"
      [] p = "relative" -> "AL_SOURCE_RELATIVE"
      [] p = "position" -> "AL_POSITION"
      [] p = "direction" -> "AL_DIRECTION"
      [] p = "max_distance" -> "AL_MAX_DISTANCE"
      [] p = "reference_distance" -> "AL_REFERENCE_DISTANCE"
      [] p = "attenuation" -> "AL_ROLLOFF_FACTOR"

\* the values the backend accepts (OpenAL 1.1, 4.3.2)
AlInRange(enum, value) ==
    CASE enum \in {"AL_MIN_GAIN", "AL_MAX_GAIN"} -> value >= 0 /\ value <= 10
      [] enum = "AL_PITCH" -> value > 0
      [] enum \in {"AL_GAIN", "AL_MAX_DISTANCE", "AL_REFERENCE_DISTANCE",
                   "AL_ROLLOFF_FACTOR"} -> value >= 0
      [] enum \in {"AL_LOOPING", "AL_SOURCE_RELATIVE"} -> value \in {0, 1}
      [] OTHER -> TRUE

\* alSourcef / alSourcei / alSourcefv(source, enum, value): AL_INVALID_VALUE
\* and no change when the value is out of range
alSourcef(par, src, s, enum, value) ==
    IF ValidSource(src, s) /\ AlInRange(enum, value)
    THEN [par EXCEPT ![s][enum] = value] ELSE par
alSourcei(par, src, s, enum, value) == alSourcef(par, src, s, enum, value)
alSourcefv(par, src, s, enum, value) == alSourcef(par, src, s, enum, value)

\* alGetSourcef / alGetSourcei / alGetSourcefv(source, enum, &value): the
\* value is left as it was when the source is not valid
alGetSourcef(par, src, s, enum, value) ==
    IF ValidSource(src, s) THEN par[s][enum] ELSE value

\* ALC_TRUE / ALC_FALSE as i32, and the match of is_looping / is_relative
BoolToAl(b) == IF b THEN 1 ELSE 0
AlToBool(i) == i = 1

\* what the setter of p does on the source s
source_set(par, src, s, p, value) ==
    IF p \in FloatParams THEN alSourcef(par, src, s, set_enum(p), value)
    ELSE IF p \in BoolParams THEN alSourcei(par, src, s, set_enum(p), BoolToAl(value))
    ELSE alSourcefv(par, src, s, set_enum(p), value)

\* what the getter of p returns for the source s
source_get(par, src, s, p) ==
    IF p \in FloatParams THEN alGetSourcef(par, src, s, get_enum(p), 0)
    ELSE IF p \in BoolParams THEN AlToBool(alGetSourcef(par, src, s, get_enum(p), 0))
    ELSE alGetSourcef(par, src, s, get_enum(p), <<0, 0, 0>>)

\* what check_openal_context!(..) makes the getter of p return
get_default(p) ==
    IF p \in {"reference_distance", "attenuation"} THEN 10
    ELSE IF p \in FloatParams THEN 0
    ELSE IF p \in BoolParams THEN FALSE
    ELSE <<0, 0, 0>>

SetterName(kind, p) == kind \o "::set_" \o p
GetterName(kind, p) ==
    IF p \in BoolParams THEN kind \o "::is_" \o p ELSE kind \o "::get_" \o p

Voice(kind) == IF kind = "Music" THEN music ELSE sound

\* the task main() runs in
MainScope == 1

\* the parameters of s that differ from what a new source has
Changed(par, s) == {e \in DOMAIN DefaultParams : par[s][e] # DefaultParams[e]}

\* check_openal_context!: the call goes on when check_al_context() is Ok
api_checked(ok) == ok

\* the setter of p of the voice, called in task s
Voice_set(s, kind, p, value) ==
    /\ Voice(kind) # NoObj /\ main.pc = "idle" /\ scopes[s].pc = "idle"
    /\ \E outcome \in Outcomes(alc) :
          /\ alc' = check_al_context_alc(s, outcome)
          /\ scopes' = [scopes EXCEPT ![s].stored = check_al_context_stored(s, outcome)]
          /\ params' = IF api_checked(check_al_context_ok(s, outcome))
                       THEN source_set(params, al_src, Voice(kind).al_source, p, value)
                       ELSE params
    /\ Cardinality(Changed(params', Voice(kind).al_source)) <= MaxChanged
    /\ returned' = Ret(SetterName(kind, p), ScopeName(s), ToString(value), "()")
    /\ UNCHANGED <<sf_info, al_src, al_buf, music_vars, sf_handle, store_vars, rec_vars>>
    /\ UNCHANGED listener

\* the getter of p of the voice, called in task s
Voice_get(s, kind, p) ==
    /\ Voice(kind) # NoObj /\ main.pc = "idle" /\ scopes[s].pc = "idle"
    /\ \E outcome \in Outcomes(alc) :
          /\ alc' = check_al_context_alc(s, outcome)
          /\ scopes' = [scopes EXCEPT ![s].stored = check_al_context_stored(s, outcome)]
          /\ returned' = Ret(GetterName(kind, p), ScopeName(s), "-",
                ToString(IF api_checked(check_al_context_ok(s, outcome))
                         THEN source_get(params, al_src, Voice(kind).al_source, p)
                         ELSE get_default(p)))
    /\ UNCHANGED <<sf_info, al_src, al_buf, music_vars, sf_handle, store_vars, rec_vars>>
    /\ UNCHANGED param_vars

\* listener::set_volume(volume), called in task s
listener_set_volume(s, volume) ==
    /\ scopes[s].pc = "idle"
    /\ \E outcome \in Outcomes(alc) :
          /\ alc' = check_al_context_alc(s, outcome)
          /\ scopes' = [scopes EXCEPT ![s].stored = check_al_context_stored(s, outcome)]
          /\ listener' = IF api_checked(check_al_context_ok(s, outcome)) /\ AlInRange("AL_GAIN", volume)
                         THEN volume ELSE listener
    /\ returned' = Ret("listener::set_volume", ScopeName(s), ToString(volume), "()")
    /\ UNCHANGED <<sf_info, al_src, al_buf, music_vars, sf_handle, store_vars, rec_vars>>
    /\ UNCHANGED params

\* listener::get_volume(), called in task s
listener_get_volume(s) ==
    /\ scopes[s].pc = "idle"
    /\ \E outcome \in Outcomes(alc) :
          /\ alc' = check_al_context_alc(s, outcome)
          /\ scopes' = [scopes EXCEPT ![s].stored = check_al_context_stored(s, outcome)]
          /\ returned' = Ret("listener::get_volume", ScopeName(s), "-",
                ToString(IF api_checked(check_al_context_ok(s, outcome)) THEN listener ELSE 0))
    /\ UNCHANGED <<sf_info, al_src, al_buf, music_vars, sf_handle, store_vars, rec_vars>>
    /\ UNCHANGED param_vars

\* Music::new / Sound::new called in task s. With a context that
\* check_al_context() finds, the constructor runs; with one it fails to make,
\* None is returned. (A check that makes the context is init() and then this.)
Voice_new(s, kind) ==
    /\ scopes[s].pc = "idle"
    /\ IF check_skips(alcGetCurrentContext(alc), scopes[s].stored)
       THEN IF kind = "Music" THEN Music_new("shot.wav") ELSE Sound_new("shot.wav")
       ELSE /\ main.pc = "idle" /\ ~HasMusic /\ ~HasSound
            /\ \E outcome \in Outcomes(alc) \ {"ok"} :
                  alc' = check_al_context_alc(s, outcome)
            /\ returned' = Ret(kind \o "::new", ScopeName(s), "context", "None")
            /\ UNCHANGED <<sf_info, al_src, al_buf, music_vars, sf_handle, store_vars>>
            /\ UNCHANGED <<scopes, rec_vars, param_vars>>

----------------------------------------------------------------------------
(* The program *)

\* everything but the context: nothing is constructed, the sources have the
\* parameters OpenAL gives a new source
InitProgram(chs, ns) ==
    /\ \E ch \in chs, n \in ns :
          sf_info = [frames |-> FileItems(n) \div ch, channels |-> ch]
    /\ sf_pos = 0
    /\ al_src = [s \in SourceIds |-> FreshSource]
    /\ al_buf = [b \in BufferIds |-> FreshBuffer]
    /\ music = NoObj
    /\ sound = NoObj
    /\ main = [pc |-> "idle", pre |-> "-"]
    /\ loops = [l \in LoopIds |-> NoLoop]
    /\ returned = NoCall
    /\ qlog = [next |-> 0, ok |-> TRUE]
    /\ sf_handle = "-"
    /\ sdata = [d \in DataIds |-> NoData]
    /\ snds = [v \in SndIds |-> NoSnd]
    /\ rec = NoObj
    /\ rtasks = [t \in RecTaskIds |-> NoRecTask]
    /\ wavs = [f \in WavNames |-> NoFile]
    /\ params = [s \in SourceIds |-> DefaultParams]
    /\ listener = DefaultParams.AL_GAIN

InitFile(chs, ns) ==
    /\ InitProgram(chs, ns)
    /\ alc = NoAlc
    /\ scopes = [s \in ScopeIds |-> NoScope]

InitWith(chs, maxn) == InitFile(chs, 0..maxn)

Init == InitWith(ChannelChoices, MaxChunks)

Next ==
    \/ \E path \in Paths : Music_new(path)
    \/ \E path \in Paths : Sound_new(path)
    \/ Sound_play
    \/ Sound_pause
    \/ Sound_stop
    \/ Music_play
    \/ Music_play_seek
    \/ \E i \in {0, 1} : Music_play_fill(i)
    \/ Music_play_start
    \/ Music_pause
    \/ Music_stop
    \/ Music_stop_return
    \/ \E l \in LoopIds : Loop_tick(l)
    \/ \E l \in LoopIds : Loop_refill(l)
    \/ \E l \in LoopIds : Loop_detach(l)
    \/ \E s \in SourceIds : AlMix(s)

Spec == Init /\ [][Next]_vars

----------------------------------------------------------------------------
(* One play() of a stereo file, streamed to its end with no further call.   *)
(* The tasks are scheduled and the device consumes what a Playing source    *)
(* has queued, so each of their steps is weakly fair; so are the steps of a *)
(* play() that has begun.                                                   *)

InitExhaust == InitWith({2}, MaxStreamChunks)

NextExhaust ==
    \/ Music_new("shot.wav")
    \/ Music_play /\ Music_get_state = "Initial"
    \/ Music_play_seek
    \/ \E i \in {0, 1} : Music_play_fill(i)
    \/ Music_play_start
    \/ \E l \in LoopIds : Loop_tick(l)
    \/ \E l \in LoopIds : Loop_refill(l)
    \/ \E l \in LoopIds : Loop_detach(l)
    \/ \E s \in SourceIds : AlMix(s)

FairExhaust ==
    /\ WF_vars(Music_play_seek)
    /\ WF_vars(\E i \in {0, 1} : Music_play_fill(i))
    /\ WF_vars(Music_play_start)
    /\ \A l \in LoopIds : WF_vars(Loop_tick(l))
    /\ \A l \in LoopIds : WF_vars(Loop_refill(l))
    /\ \A l \in LoopIds : WF_vars(Loop_detach(l))
    /\ \A s \in SourceIds : WF_vars(AlMix(s))

SpecExhaust == InitExhaust /\ [][NextExhaust]_vars /\ FairExhaust

----------------------------------------------------------------------------
(* One play() of a stereo file, then pause() and stop() at any moment and   *)
(* no further play(). The tasks and the device are scheduled as above, and  *)
(* a stop() that has begun returns.                                         *)

NextStop ==
    \/ Music_new("shot.wav")
    \/ Music_play /\ Music_get_state = "Initial"
    \/ Music_play_seek
    \/ \E i \in {0, 1} : Music_play_fill(i)
    \/ Music_play_start
    \/ Music_pause
    \/ Music_stop
    \/ Music_stop_return
    \/ \E l \in LoopIds : Loop_tick(l)
    \/ \E l \in LoopIds : Loop_refill(l)
    \/ \E l \in LoopIds : Loop_detach(l)
    \/ \E s \in SourceIds : AlMix(s)

FairStop == FairExhaust /\ WF_vars(Music_stop_return)

SpecStop == InitExhaust /\ [][NextStop]_vars /\ FairStop

----------------------------------------------------------------------------
(* SoundData objects and the Sounds sharing them, under any caller *)

NextStore ==
    \/ \E path \in Paths : SoundData_new(path)
    \/ \E d \in DataIds : Sound_new_with_data(d)
    \/ \E v \in SndIds : Sound_drop(v)
    \/ \E d \in DataIds : Data_release(d)
    \/ \E v \in SndIds : Sound_get_datas_kept(v)
    \/ \E v \in SndIds, d \in DataIds : Sound_set_datas(v, d)
    \/ \E v \in SndIds : Snd_play(v)
    \/ \E v \in SndIds : Snd_pause(v)
    \/ \E v \in SndIds : Snd_stop(v)
    \/ \E s \in SourceIds : AlMix(s)

\* a file of MaxChunks chunks, with a supported or an unsupported channel count
InitStore == InitFile(ChannelChoices, {MaxChunks})

SpecStore == InitStore /\ [][NextStore]_vars

----------------------------------------------------------------------------
(* The constructors, given files of 1 .. MaxChannels channels *)

InitConstruct == InitWith(1..MaxChannels, MaxChunks)

NextConstruct ==
    \/ \E path \in Paths : Music_new(path)
    \/ \E path \in Paths : Sound_new(path)
    \/ \E path \in Paths : SoundData_new(path)
    \/ \E d \in DataIds : Data_release(d)

SpecConstruct == InitConstruct /\ [][NextConstruct]_vars

----------------------------------------------------------------------------
(* The tasks and the context *)

NextCtx ==
    \/ \E s \in ScopeIds : init(s)
    \/ \E s \in ScopeIds : init_in(s)
    \/ \E s \in ScopeIds : init_in_finish(s)
    \/ \E s \in ScopeIds : scope_exit(s)

InitCtx == InitFile({2}, {MaxChunks})

SpecCtx == InitCtx /\ [][NextCtx]_vars

----------------------------------------------------------------------------
(* A Recorder under any caller, in a task whose init_in() has succeeded *)

\* the backend and the task after the first init_in() of task 1
InitRecCtx(lenient) ==
    LET a0 == OpenAlData_new_alc(NoAlc, "ok")
        stored0 == OpenAlData_new_data(NoAlc)
        k == alcCaptureOpenDevice_id(a0)
    IN /\ alc = OpenAlData_drop(alcCaptureOpenDevice(a0), stored0, lenient)
       /\ scopes = [s \in ScopeIds |->
             IF s = 1 THEN [NoScope EXCEPT !.stored = [stored0 EXCEPT !.al_capt_device = k],
                                           !.rc_first = k, !.rc_last = k]
             ELSE NoScope]

InitRec ==
    /\ InitProgram({2}, {MaxChunks})
    /\ \E lenient \in BOOLEAN : InitRecCtx(lenient)

NextRec ==
    \/ \E s \in ScopeIds : scopes[s].rc_last # 0 /\ Recorder_new(scopes[s].rc_last)
    \/ \E s \in ScopeIds : Recorder_start(s)
    \/ \E s \in ScopeIds : Recorder_stop(s)
    \/ Recorder_stop_recv
    \/ \E t \in RecTaskIds : Capture_turn(t)
    \/ \E t \in RecTaskIds : Capture_send(t)
    \/ \E f \in FileNames : Recorder_save_to_file(f)

SpecRec == InitRec /\ [][NextRec]_vars

----------------------------------------------------------------------------
(* The voices and their parameters, under any caller in one task *)

NextParams ==
    \/ \E kind \in VoiceKinds : Voice_new(MainScope, kind)
    \/ \E kind \in VoiceKinds, p \in Params :
          \E value \in Inputs(p) : Voice_set(MainScope, kind, p, value)
    \/ \E kind \in VoiceKinds, p \in Params : Voice_get(MainScope, kind, p)
    \/ init(MainScope)
    \/ Sound_play
    \/ Sound_pause
    \/ Sound_stop
    \/ \E s \in SourceIds : AlMix(s)

SpecParams == InitFile({2}, {MaxChunks}) /\ [][NextParams]_vars

----------------------------------------------------------------------------
(* The public operations and the context check, after the first init_in()  *)
(* of the task MainScope: that task makes the Music and the Recorder, the   *)
(* task WorkerScope calls them and the listener                              *)

WorkerScope == 2
ApiKinds == {"Music"}
ApiParams == {"volume", "reference_distance"}

NextApi ==
    \/ \E kind \in ApiKinds : Voice_new(MainScope, kind)
    \/ \E kind \in ApiKinds, p \in ApiParams :
          \E value \in Inputs(p) : Voice_set(WorkerScope, kind, p, value)
    \/ \E kind \in ApiKinds, p \in ApiParams : Voice_get(WorkerScope, kind, p)
    \/ \E volume \in FloatInputs : listener_set_volume(WorkerScope, volume)
    \/ listener_get_volume(WorkerScope)
    \/ Recorder_new(scopes[MainScope].rc_last)
    \/ Recorder_start(WorkerScope)
    \/ Recorder_stop(WorkerScope)
    \/ Recorder_stop_recv
    \/ \E t \in RecTaskIds : Capture_turn(t)
    \/ \E t \in RecTaskIds : Capture_send(t)

SpecApi == InitRec /\ [][NextApi]_vars

----------------------------------------------------------------------------
(* Claims *)

MusicQueue == al_src[music.al_source].queue
LoopsAllExited == AliveLoops = {} /\ \E l \in LoopIds : loops[l].pc = "exited"

\* C1: once play() has returned and the caller does nothing more, the voice
\* reaches Stopped by itself and the refill task exits with no buffer left
\* queued on the source; and whenever the task has exited, the queue of the
\* source is empty and the source is Stopped.
C1_StreamingExhaustion ==
    /\ (returned.op = "Music::play")
          ~> (HasMusic /\ Music_get_state = "Stopped" /\ LoopsAllExited
                       /\ MusicQueue = <<>>)
    /\ [](LoopsAllExited => (Music_get_state = "Stopped" /\ MusicQueue = <<>>))

\* a file shorter than two chunks was streamed to its end and the task is gone
C1_Witness ==
    /\ HasMusic /\ LoopsAllExited
    /\ Items > 0 /\ Items < 2 * sample_to_read /\ sf_pos = Items
    /\ Music_get_state = "Stopped" /\ MusicQueue = <<>>

\* C2: at most one refill task of the voice is alive at any time.
C2_OneLoopPerVoice == Cardinality(AliveLoops) <= 1


\* the state the voice of the program reports
VoiceState == IF HasMusic THEN Music_get_state ELSE Sound_get_state

\* chunk k of the file, as read_i16 returns it after k earlier reads
Chunk(k) == sf_read(Min(k * sample_to_read, Items), sample_to_read)

\* C3: while the voice started by play() is Playing or Paused, every
\* non-empty chunk queued on the source since that play() started streaming
\* begins where the chunk queued before it ended, the first at 0: chunks
\* 0, 1, 2, ... in order, none skipped, none twice.
C3_ChunksInOrder ==
    (HasMusic /\ Music_get_state \in {"Playing", "Paused"}) => qlog.ok

\* C4: a new voice is not playing; right after play() the state is Playing;
\* right after pause() of a Playing voice it is Paused; is_playing() is true
\* exactly when get_state() is Playing. For the Sound and for the Music.
C4_StateMachine ==
    /\ (returned.op \in {"Music::new", "Sound::new"} /\ returned.res = "Some")
          => (VoiceState = "Initial"
              /\ (HasMusic => ~Music_is_playing) /\ (HasSound => ~Sound_is_playing))
    /\ returned.op \in {"Music::play", "Sound::play"} => VoiceState = "Playing"
    /\ (returned.op \in {"Music::pause", "Sound::pause"} /\ returned.pre = "Playing")
          => VoiceState = "Paused"
    /\ HasMusic => (Music_is_playing <=> Music_get_state = "Playing")
    /\ HasSound => (Sound_is_playing <=> Sound_get_state = "Playing")

\* play() of a Paused Sound has just returned and the Sound plays again
C4_Witness ==
    /\ HasSound /\ returned.op = "Sound::play" /\ returned.pre = "Paused"
    /\ Sound_get_state = "Playing" /\ Sound_is_playing

StopReturned == returned.op \in {"Music::stop", "Sound::stop"}

\* C5 as claimed: right after stop() the state is Stopped, whatever it was.
C5_StopFromAnyState == StopReturned => VoiceState = "Stopped"

\* C5 as amended: right after stop() the state is Stopped when the voice was
\* Playing, Paused or Stopped, and still Initial when it was Initial.
C5_StopFromStartedVoice ==
    /\ (StopReturned /\ returned.pre # "Initial") => VoiceState = "Stopped"
    /\ (StopReturned /\ returned.pre = "Initial") => VoiceState = "Initial"

\* stop() of a Paused Music has returned from its sleep and the voice is Stopped
C5_Witness ==
    /\ HasMusic /\ returned.op = "Music::stop" /\ returned.pre = "Paused"
    /\ Music_get_state = "Stopped"

\* the step in which stop() of a Stopped voice calls the backend
StopCallOnStopped ==
    \/ main.pc = "idle" /\ main'.pc = "stop_sleep" /\ main'.pre = "Stopped"
    \/ returned'.op = "Sound::stop" /\ returned'.pre = "Stopped"

\* C6: stop() of a Stopped voice changes no source, no queue, no buffer and
\* not the read position of the file, and the state is Stopped when it returns.
C6_StopIdempotent ==
    /\ [][StopCallOnStopped => UNCHANGED <<al_src, al_buf, sf_pos, loops, music, sound>>]_vars
    /\ []((StopReturned /\ returned.pre = "Stopped") => VoiceState = "Stopped")

\* stop() of a Stopped Music whose buffers are still queued has returned
C6_Witness ==
    /\ HasMusic /\ returned.op = "Music::stop" /\ returned.pre = "Stopped"
    /\ Music_get_state = "Stopped" /\ MusicQueue # <<>>

\* C7: play() of a Paused Music only resumes the source: the read position,
\* the buffers, the queue of the source and how much of it was played, and the
\* tasks are what they were, and no task is spawned.
C7_PlayResumesInPlace ==
    [][(returned'.op = "Music::play" /\ returned'.pre = "Paused")
          => /\ UNCHANGED <<sf_pos, al_buf, loops, qlog, music>>
             /\ al_src'[music.al_source].queue = al_src[music.al_source].queue
             /\ al_src'[music.al_source].processed = al_src[music.al_source].processed
             /\ al_src'[music.al_source].state = "AL_PLAYING"]_vars

\* play() of a Paused Music has returned; its task is alive and part of the
\* queue was already played
C7_Witness ==
    /\ HasMusic /\ returned.op = "Music::play" /\ returned.pre = "Paused"
    /\ AliveLoops # {} /\ MusicQueue # <<>>
    /\ al_src[music.al_source].processed > 0 /\ sf_pos > 0

RestartReturned == HasMusic /\ returned.op = "Music::play" /\ returned.pre # "Paused"

\* C8: when play() of an Initial, Stopped or Playing Music returns, the last
\* two buffers of the queue are the two buffers of the Music and hold chunk 0
\* and chunk 1 of the file.
C8_RestartsFromBeginning ==
    RestartReturned =>
        LET q == MusicQueue
            n == Len(q)
        IN /\ n >= 2
           /\ q[n - 1] = music.al_buffers[1] /\ q[n] = music.al_buffers[2]
           /\ al_buf[q[n - 1]].data = Chunk(0)
           /\ al_buf[q[n]].data = Chunk(1)

\* C9: when play() of an Initial, Stopped or Playing Music returns, the caller
\* is free again while the task it spawned is alive, asleep before its first turn.
C9_PlayDoesNotBlock ==
    RestartReturned =>
        /\ main.pc = "idle"
        /\ \E l \in LoopIds : loops[l] = [pc |-> "sleep", status |-> "AL_PLAYING", buf |-> 0]

\* play() has returned, the source is Playing with both buffers still to play
C9_Witness ==
    /\ RestartReturned /\ Music_get_state = "Playing"
    /\ Cardinality(AliveLoops) = 1 /\ al_src[music.al_source].processed = 0
    /\ Items > sample_to_read

\* C10: a constructor called with a path that cannot be opened returns None,
\* leaves the program without a voice and generates no source and no buffer.
C10_OpenFailure ==
    [][(returned'.op \in {"Music::new", "Sound::new"} /\ ~FileExists(returned'.path))
          => /\ returned'.res = "None"
             /\ music' = NoObj /\ sound' = NoObj
             /\ UNCHANGED <<al_src, al_buf>>]_vars

\* Sound::new("toto.wav") has returned None and the backend holds nothing
C10_Witness ==
    /\ returned.op = "Sound::new" /\ returned.path = "toto.wav" /\ returned.res = "None"
    /\ sound = NoObj
    /\ \A s \in SourceIds : ~al_src[s].alloc
    /\ \A b \in BufferIds : ~al_buf[b].alloc


AllocatedSources(src) == {s \in SourceIds : src[s].alloc}
AllocatedBuffers(buf) == {b \in BufferIds : buf[b].alloc}

\* C11: a Music::new that fails after alGenSources and alGenBuffers (at the
\* format or on a backend error) leaves allocated exactly the sources and the
\* buffers that were allocated before it.
C11_FailedMusicNewReleases ==
    [][(returned'.op = "Music::new" /\ returned'.pre \in {"format", "backend"})
          => /\ AllocatedSources(al_src') = AllocatedSources(al_src)
             /\ AllocatedBuffers(al_buf') = AllocatedBuffers(al_buf)]_vars

SupportedChannels == {1, 2, 4, 5, 6, 7}
ConstructorReturned ==
    /\ returned'.op \in {"Music::new", "Sound::new", "SoundData::new"}
    /\ FileExists(returned'.path)

\* C12: the format mapping succeeds exactly for 1, 2, 4, 5, 6 and 7 channels;
\* with one of these counts no constructor (Music, Sound, SoundData) stops at
\* the format, and with any other count it returns None and leaves allocated
\* exactly what was allocated before it.
C12_FormatMapping ==
    [][/\ (get_channels_format(sf_info.channels) # "None")
             <=> (sf_info.channels \in SupportedChannels)
       /\ (ConstructorReturned /\ sf_info.channels \in SupportedChannels)
             => returned'.pre # "format"
       /\ (ConstructorReturned /\ sf_info.channels \notin SupportedChannels)
             => /\ returned'.res = "None"
                /\ AllocatedSources(al_src') = AllocatedSources(al_src)
                /\ AllocatedBuffers(al_buf') = AllocatedBuffers(al_buf)]_vars

\* C13: a SoundData::new that returns None makes no SoundData, leaves no file
\* handle open and allocates no buffer; one that succeeds has closed the file
\* and owns the one buffer it allocated.
C13_StoreAllOrNothing ==
    [][returned'.op = "SoundData::new"
          => IF returned'.res = "None"
             THEN /\ sdata' = sdata
                  /\ sf_handle' # "open"
                  /\ AllocatedBuffers(al_buf') = AllocatedBuffers(al_buf)
             ELSE /\ sf_handle' = "closed"
                  /\ \E d \in DataIds :
                        /\ sdata[d].state = "none" /\ sdata'[d].state = "live"
                        /\ AllocatedBuffers(al_buf') =
                              AllocatedBuffers(al_buf) \cup {sdata'[d].al_buffer}
                        /\ sdata'[d].al_buffer \notin AllocatedBuffers(al_buf)]_vars

\* every source of the backend is the source of a Sound
NoLeakedSource ==
    \A s \in AllocatedSources(al_src) : \E v \in SndIds : snds[v].alive /\ snds[v].al_source = s

\* C14: when a Sound or a reference of the caller is dropped (and every source
\* belongs to a Sound), the buffer of a SoundData is deleted in that step if
\* its last reference went with it, and stays allocated if another reference
\* is left; dropping a Sound deletes the source of that Sound and no other.
C14_BufferDeletedOnce ==
    [][(returned'.op \in {"Sound::drop", "Rc::drop"} /\ NoLeakedSource)
          => /\ \A d \in DataIds :
                   sdata[d].state = "live" =>
                      IF StrongCount(sdata', snds', d) = 0
                      THEN sdata'[d].state = "dropped" /\ sdata'[d].deleted
                           /\ sdata[d].al_buffer \notin AllocatedBuffers(al_buf')
                      ELSE sdata'[d].state = "live"
                           /\ sdata[d].al_buffer \in AllocatedBuffers(al_buf')
             /\ \A v \in SndIds :
                   returned'.op = "Sound::drop" /\ returned'.path = SndName(v)
                      => AllocatedSources(al_src') = AllocatedSources(al_src) \ {snds[v].al_source}
             /\ returned'.op = "Rc::drop" => al_src' = al_src]_vars

\* C15: play(), pause() or stop() of one Sound leaves the source of every
\* other Sound, and so the state it reports, as it was.
C15_IndependentVoices ==
    [][\A v \in SndIds, w \in SndIds :
          (/\ returned'.op \in {"Sound::play", "Sound::pause", "Sound::stop"}
           /\ returned'.path = SndName(v) /\ w # v /\ snds[w].alive)
             => /\ snds'[w] = snds[w]
                /\ al_src'[snds[w].al_source] = al_src[snds[w].al_source]]_vars

\* two Sounds share one SoundData; play() of one has returned, it is Playing
\* and the other one, played and stopped before, is Stopped
C15_Witness ==
    \E v \in SndIds, w \in SndIds :
        /\ v # w /\ snds[v].alive /\ snds[w].alive
        /\ snds[v].sound_data = snds[w].sound_data
        /\ returned.op = "Sound::play" /\ returned.path = SndName(v)
        /\ Snd_get_state(v) = "Playing" /\ Snd_get_state(w) = "Stopped"

\* C16: set_datas on a Playing Sound changes neither the buffer attached to
\* its source nor what get_datas() returns; in every other state the buffer of
\* the SoundData it was given is attached to the source afterwards and
\* get_datas() returns that SoundData.
C16_SetDatas ==
    [][\A v \in SndIds, d \in DataIds :
          (returned'.op = "Sound::set_datas" /\ returned'.path = SndName(v)
           /\ returned'.res = DataName(d))
             => IF returned'.pre = "Playing"
                THEN /\ BoundBuffer(al_src', v) = BoundBuffer(al_src, v)
                     /\ snds'[v].sound_data = Sound_get_datas(v)
                ELSE /\ BoundBuffer(al_src', v) = sdata[d].al_buffer
                     /\ snds'[v].sound_data = d]_vars

InitReturnedIn(s) == returned'.op = "init" /\ returned'.path = ScopeName(s)

\* C17: init() in a task, made while a context is current or the task has one
\* stored, returns true and changes nothing in the backend and in the tasks;
\* made otherwise and returning true, it has opened a device that was not
\* open, created its context, made it current and stored both in the task.
C17_InitIdempotent ==
    [][\A s \in ScopeIds :
          InitReturnedIn(s) =>
             IF alc.current # 0 \/ scopes[s].stored # NoObj
             THEN returned'.res = "true" /\ alc' = alc /\ scopes' = scopes
             ELSE returned'.res = "true" =>
                     /\ alc'.current # 0
                     /\ alc.dev[alc'.current].state = "none"
                     /\ alc'.dev[alc'.current].state = "open"
                     /\ alc'.ctx[alc'.current].state = "live"
                     /\ scopes'[s].stored.al_context = alc'.current
                     /\ scopes'[s].stored.al_device = alc'.current]_vars

\* init() has returned true in a task that stores nothing, on the context
\* another task created, and one device is open
C17_Witness ==
    \E s \in ScopeIds, r \in ScopeIds :
        /\ returned.op = "init" /\ returned.path = ScopeName(s)
        /\ returned.pre = "current" /\ returned.res = "true"
        /\ scopes[s].stored = NoObj /\ scopes[r].stored # NoObj
        /\ alc.current = scopes[r].stored.al_context
        /\ {d \in DeviceIds : alc.dev[d].state # "none"} = {alc.current}

\* the OpenAlData objects that hold the device d
Owners(d) ==
    Cardinality({s \in ScopeIds : scopes[s].stored # NoObj /\ scopes[s].stored.al_device = d})
    + Cardinality({s \in ScopeIds : scopes[s].clone # NoObj /\ scopes[s].clone.al_device = d})

\* C18: a device and its context are held by at most one OpenAlData, and
\* alcDestroyContext and alcCloseDevice are called on them at most once.
C18_OneOwner ==
    \A d \in DeviceIds :
        Owners(d) <= 1 /\ alc.ctx[d].calls <= 1 /\ alc.dev[d].calls <= 1

\* the step in which the task s calls init_in()
InitInCalledIn(s) ==
    /\ scopes[s].pc = "idle"
    /\ \/ scopes'[s].pc # "idle"
       \/ returned'.op = "init_in" /\ returned'.path = ScopeName(s)

\* C19: init_in() in a task that stores nothing, while a context is current,
\* returns None and changes nothing in the backend; init_in() while no context
\* is current creates a context, stores it in the task and goes on from there,
\* or returns None.
C19_InputScope ==
    [][\A s \in ScopeIds :
          InitInCalledIn(s) =>
             /\ (alc.current # 0 /\ scopes[s].stored = NoObj)
                   => /\ returned'.op = "init_in" /\ returned'.res = "None"
                      /\ alc' = alc
             /\ alc.current = 0
                   => IF scopes'[s].pc # "idle"
                      THEN /\ alc'.current # 0
                           /\ alc.ctx[alc'.current].state = "none"
                           /\ alc'.ctx[alc'.current].state = "live"
                           /\ scopes'[s].stored.al_context = alc'.current
                      ELSE returned'.res = "None"]_vars

\* C20: when a successful init_in() returns in a task, the RecordContext it
\* returns equals the one of the first successful init_in() in that task, the
\* capture device it names is open, and no other capture device was opened.
C20_CaptureOpenedOnce ==
    \A s \in ScopeIds :
        (returned.op = "init_in" /\ returned.res = "Some" /\ returned.path = ScopeName(s))
           => /\ scopes[s].rc_last = scopes[s].rc_first
              /\ alc.capt[scopes[s].rc_last].state = "open"


\* a step in which a destructor of an OpenAlData ran
TeardownStep ==
    \/ alc'.log # alc.log
    \/ \E d \in DeviceIds : alc'.ctx[d].calls # alc.ctx[d].calls \/ alc'.dev[d].calls # alc.dev[d].calls
    \/ \E k \in CaptureIds : alc'.capt[k].calls # alc.capt[k].calls

\* the step in which the task s ends while it stores the OpenAlData o
ScopeEnds(s, o) ==
    scopes[s].pc = "idle" /\ scopes[s].stored = o /\ o # NoObj /\ scopes'[s] = NoScope

\* C21: a destructor of an OpenAlData runs only in the step in which the task
\* storing that OpenAlData ends, and it calls alcDestroyContext, then
\* alcCaptureCloseDevice if the object has a capture device, then
\* alcCloseDevice.
C21_TeardownAtScopeEnd ==
    [][TeardownStep =>
          \E s \in ScopeIds :
             /\ ScopeEnds(s, scopes[s].stored)
             /\ alc'.log = IF scopes[s].stored.al_capt_device # 0
                           THEN <<"alcDestroyContext", "alcCaptureCloseDevice", "alcCloseDevice">>
                           ELSE <<"alcDestroyContext", "alcCloseDevice">>]_vars


\* the step in which the caller calls stop()
StopCalled ==
    /\ rec # NoObj /\ rec.pc = "idle"
    /\ rec'.pc = "stop_recv" \/ returned'.op = "Recorder::stop"

\* C22: stop() on a Recorder whose start() was never called (stop_sender is
\* None) returns false at once and changes neither the Recorder nor a task;
\* on a Recorder whose start() was called it puts one message in the stop
\* channel of the latest task and blocks, and when it returns from there it
\* returns true with the samples that task delivered stored.
C22_StopProtocol ==
    [][/\ StopCalled =>
             IF rec.stop_sender = 0
             THEN returned'.res = "false" /\ rec' = rec /\ rtasks' = rtasks
             ELSE /\ rec'.pc = "stop_recv"
                  /\ rtasks'[rec.stop_sender].stop_msgs = rtasks[rec.stop_sender].stop_msgs + 1
       /\ (rec # NoObj /\ rec.pc = "stop_recv" /\ rec'.pc # "stop_recv")
             => /\ returned'.op = "Recorder::stop" /\ returned'.res = "true"
                /\ rtasks[rec.data_receiver].data
                /\ rec'.samples = rtasks[rec.data_receiver].samples]_vars

\* a stop() has returned true
StopCompleted == \E t \in RecTaskIds : rtasks[t].pc = "done" /\ ~rtasks[t].data

SaveReturned == returned'.op = "Recorder::save_to_file"

\* what save_to_file has to leave in the file of the name it was given
SavedAsWav ==
    LET f == wavs'[returned'.path \o ".wav"]
    IN /\ f.written
       /\ f.items = rec.samples
       /\ f.infos.frames = Len(rec.samples)
       /\ f.infos.samplerate = 44100 /\ f.infos.channels = 1
       /\ f.infos.format = {"FormatPcm16", "FormatWav"}

\* C23 (as stated): the stored samples are empty until a stop() has
\* completed; save_to_file returns false and writes nothing when they are
\* empty, and otherwise writes them all as mono 44100 Hz PCM16 WAV to the
\* name plus ".wav" and returns true.
C23_SaveToFile ==
    [][/\ (rec # NoObj /\ ~StopCompleted) => rec.samples = <<>>
       /\ SaveReturned =>
             IF rec.samples = <<>>
             THEN returned'.res = "false" /\ wavs' = wavs
             ELSE returned'.res = "true" /\ SavedAsWav]_vars

\* C23 (amended): as above, but with stored samples save_to_file returns
\* true and writes the file only when the file could be opened; when
\* SndFile::new_with_info fails it returns false and writes nothing.
C23_SaveToFileWhenOpened ==
    [][/\ (rec # NoObj /\ ~StopCompleted) => rec.samples = <<>>
       /\ SaveReturned =>
             IF rec.samples = <<>> \/ returned'.pre = "open"
             THEN returned'.res = "false" /\ wavs' = wavs
             ELSE returned'.res = "true" /\ SavedAsWav]_vars

\* save_to_file has returned true and the file holds the samples the
\* stopped task captured
C23_Witness ==
    /\ returned.op = "Recorder::save_to_file" /\ returned.res = "true"
    /\ rec.samples # <<>>
    /\ wavs[file_ext(returned.path)].written
    /\ wavs[file_ext(returned.path)].items = rec.samples

\* C24: at most one task of the Recorder is alive, and every task that is in
\* its loop either has a stop message waiting or has its Sender still held by
\* the Recorder.
C24_OneCaptureLoop ==
    /\ Cardinality(LiveRecTasks) <= 1
    /\ \A t \in RecTaskIds :
          rtasks[t].pc = "loop" => (rtasks[t].stop_msgs > 0 \/ rtasks[t].stop_tx)


\* the range the documentation gives a parameter
DocRange(p, value) ==
    IF p \in {"volume", "min_volume", "max_volume", "attenuation"}
    THEN value >= 0 /\ value <= 10
    ELSE IF p = "pitch" THEN value >= 5 /\ value <= 20
    ELSE IF p \in {"max_distance", "reference_distance"} THEN value >= 0
    ELSE TRUE

ClaimedDefault(p) ==
    IF p \in FloatParams THEN 0 ELSE IF p \in BoolParams THEN FALSE ELSE <<0, 0, 0>>

\* the task s has made a call whose context check, had it been made, could
\* only have failed: nothing was current or stored, and nothing is current now
FailedCheckIn(s) ==
    /\ returned'.path = ScopeName(s)
    /\ ~(alc.current # 0 \/ scopes[s].stored # NoObj)
    /\ alc'.current = 0

\* C25: a public operation called where the context check fails changes
\* nothing but the backend state of the check itself and returns its default:
\* None from a constructor, () from a setter and from Recorder::start, false
\* from Recorder::stop, and 0.0, false or a zero vector from a getter.
C25_CheckedOperations ==
    [][\A s \in ScopeIds :
          (FailedCheckIn(s) /\ returned'.op # "init" /\ returned'.op # "init_in")
             => /\ UNCHANGED <<al_src, al_buf, params, listener, music, sound, sf_pos,
                               rec, rtasks, wavs, scopes>>
                /\ returned'.op \in {"Music::new", "Sound::new"} => returned'.res = "None"
                /\ returned'.op = "Recorder::stop" => returned'.res = "false"
                /\ returned'.op = "listener::get_volume" => returned'.res = ToString(0)
                /\ \A kind \in VoiceKinds, p \in Params :
                      returned'.op = GetterName(kind, p)
                         => returned'.res = ToString(ClaimedDefault(p))]_vars

\* the caller is inside play() between its seek(0, SeekSet) and the second of
\* its two reads of the file
CallerInsideReads == main.pc \in {"play_fill0", "play_fill1"}

\* the task l reads the file in this step
LoopReads(l) == loops[l].pc = "refill" /\ loops'[l].pc # "refill"

\* C27: no task reads the file handle of the Music between the seek and the
\* last read that play() makes on it in the caller.
C27_DecodeSourceNotShared ==
    [][\A l \in LoopIds : LoopReads(l) => ~CallerInsideReads]_vars

\* a step of init_in() in the task s: its call, or is_input_context_init
\* from the clone on
InitInStep(s) ==
    \/ InitInCalledIn(s)
    \/ scopes[s].pc # "idle" /\ scopes'[s].pc = "idle"

\* no ALC destructor is called in the step
NoAlcDestructorCall ==
    /\ \A d \in DeviceIds : /\ alc'.ctx[d].calls = alc.ctx[d].calls
                            /\ alc'.dev[d].calls = alc.dev[d].calls
    /\ \A k \in CaptureIds : alc'.capt[k].calls = alc.capt[k].calls

\* C28: no step of init_in() calls alcDestroyContext, alcCloseDevice or
\* alcCaptureCloseDevice, whichever way is_input_context_init ends, and the
\* context that is current before the step is live and current after it.
C28_InputInitKeepsPlayback ==
    [][\A s \in ScopeIds :
          InitInStep(s) =>
             /\ NoAlcDestructorCall
             /\ alc.current # 0 => /\ alc'.current = alc.current
                                   /\ alc'.ctx[alc.current].state = "live"]_vars

\* the task l unqueues a buffer in this step / requeues the one it holds
LoopUnqueues(l) == loops[l].pc = "sleep" /\ loops'[l].pc = "refill"
LoopRequeues(l) == loops[l].pc = "refill" /\ loops'[l].pc # "refill"

\* a task other than l holds a buffer it has unqueued and not yet requeued
OtherLoopHolds(l) == \E l2 \in LoopIds \ {l} : loops[l2].pc = "refill"

\* C29: the task unqueues the head of the queue of the voice, refills the
\* buffer it unqueued and no other, and requeues that buffer at the tail; and
\* it unqueues only when every buffer unqueued before is requeued, so that the
\* buffers are requeued in the order they were unqueued in.
C29_RefillFifo ==
    [][HasMusic =>
          \A l \in LoopIds :
             /\ LoopUnqueues(l) => /\ loops'[l].buf = Head(MusicQueue)
                                   /\ al_src'[music.al_source].queue = Tail(MusicQueue)
                                   /\ ~OtherLoopHolds(l)
             /\ LoopRequeues(l) =>
                   /\ al_src'[music.al_source].queue = Append(MusicQueue, loops[l].buf)
                   /\ \A b \in BufferIds \ {loops[l].buf} : al_buf'[b] = al_buf[b]]_vars

\* the task l takes a turn of its loop, up to and including the unqueue
LoopTicks(l) == loops[l].pc = "sleep" /\ loops'[l] # loops[l]

\* C30: a turn of the loop taken while the voice is Playing leaves no
\* processed buffer on the queue of the voice: what the backend reported as
\* processed has been unqueued to be refilled.
C30_TickTakesAllProcessed ==
    [][HasMusic =>
          \A l \in LoopIds :
             (LoopTicks(l) /\ Music_get_state = "Playing")
                => BuffersProcessed(al_src', music.al_source) = 0]_vars

\* C31: while the source of the voice is Paused no task unqueues a buffer of
\* the voice, and none reads the file, uploads and requeues.
C31_NoRefillWhilePaused ==
    [][(HasMusic /\ Music_get_state = "Paused") =>
          \A l \in LoopIds : ~LoopUnqueues(l) /\ ~LoopRequeues(l)]_vars

\* C32: once stop() has returned with a task of the voice alive, and play()
\* is not called again, every task of the voice exits and the queue of the
\* source is released; and a task whose last reading of the source state is
\* Stopped unqueues and requeues nothing.
C32_StopEndsLoop ==
    /\ (returned.op = "Music::stop" /\ AliveLoops # {})
          ~> (LoopsAllExited /\ MusicQueue = <<>> /\ Music_get_state = "Stopped")
    /\ [][\A l \in LoopIds :
             loops[l].status = "AL_STOPPED" => ~LoopUnqueues(l) /\ ~LoopRequeues(l)]_vars

\* stop() of a Playing voice has returned, with samples of the file still
\* unread, and the task has exited and released the queue
C32_Witness ==
    /\ returned.op = "Music::stop" /\ returned.pre = "Playing"
    /\ LoopsAllExited /\ MusicQueue = <<>> /\ Music_get_state = "Stopped"
    /\ sf_pos < Items

\* the task l has left its while loop
LoopLeft(l) == loops[l].pc \in {"detach", "exited"}

\* C33: with one play() and no stop(), a task of the voice has left its loop
\* only when every sample of the file has been read.
C33_ExitOnlyWhenExhausted ==
    \A l \in LoopIds : LoopLeft(l) => sf_pos = Items

\* play() refills al_buffers[i] in this step
CallerRefills(i) ==
    /\ main.pc = (IF i = 0 THEN "play_fill0" ELSE "play_fill1")
    /\ main'.pc # main.pc

\* the task l makes its detach call in this step
LoopDetaches(l) == loops[l].pc = "detach" /\ loops'[l].pc = "exited"

\* C34: a buffer that play() refills is not queued on the source at that
\* moment, and a task makes its detach call only when no task spawned by
\* another play() is alive.
C34_RestartReusesFreeBuffers ==
    [][HasMusic =>
          /\ \A i \in {0, 1} :
                CallerRefills(i) => ~BufferInUse(al_src, music.al_buffers[i + 1])
          /\ \A l \in LoopIds :
                LoopDetaches(l) => AliveLoops \ {l} = {}]_vars

\* the task t has seen the stop message
StopObserved(t) == rtasks[t].pc \in {"send", "done", "failed"}

\* the blocks the task t has pulled from the device, in the order of the pulls
PulledBy(t) == [i \in 1..Len(rtasks[t].samples) |-> <<t, i>>]

\* C35: the accumulator of a task is the concatenation, in pull order, of the
\* blocks it pulled; a task that has seen the stop message has stopped the
\* capture and pulls nothing more; what it sends, and what stop() stores, is
\* that accumulator.
C35_SamplesSentBack ==
    /\ [](\A t \in RecTaskIds :
             /\ rtasks[t].samples = PulledBy(t)
             /\ StopObserved(t) => rtasks[t].capt = "alcCaptureStop"
             /\ rtasks[t].pc = "loop" => rtasks[t].capt = "alcCaptureStart")
    /\ [][/\ \A t \in RecTaskIds :
               StopObserved(t) => rtasks'[t].samples = rtasks[t].samples
          /\ \A t \in RecTaskIds :
               (rtasks[t].data /\ ~rtasks'[t].data)
                  => rec'.samples = rtasks[t].samples]_vars

\* stop() has returned true with the two blocks its task pulled, in order
C35_Witness ==
    /\ returned.op = "Recorder::stop" /\ returned.res = "true"
    /\ \E t \in RecTaskIds :
          /\ rtasks[t].pc = "done" /\ Len(rtasks[t].samples) = MaxSamples
          /\ rec.samples = PulledBy(t)

\* C36: no stop() fails on a closed channel, and when a stop() has returned
\* true the task it signalled has ended.
C36_StopNeverFails ==
    /\ rec # NoObj => rec.pc # "failed"
    /\ (returned.op = "Recorder::stop" /\ returned.res = "true")
          => rtasks[rec.stop_sender].pc = "done"

----------------------------------------------------------------------------
(* Dropping a Music                                                        *)

\* alDeleteBuffers(2, ids): both names are deleted, or none of them when one
\* is not a buffer or is still queued on a source
alDeleteBuffers_n(src, buf, bufs) ==
    IF \A k \in 1..Len(bufs) : ValidBuffer(buf, bufs[k]) /\ ~BufferInUse(src, bufs[k])
    THEN [b \in BufferIds |-> IF b \in SeqToSet(bufs) THEN FreshBuffer ELSE buf[b]]
    ELSE buf

\* the Music is owned by its caller until the destructor has deleted its source
MusicLive == HasMusic /\ ValidSource(al_src, music.al_source)
MusicDropped == HasMusic /\ ~ValidSource(al_src, music.al_source)

\* impl Drop for Music: the queue is detached, the two buffers and the source
\* are deleted. The tasks of the voice are neither told nor waited for; they
\* keep the names they captured, which the record music still holds for them.
Music_drop ==
    /\ main.pc = "idle" /\ MusicLive
    /\ LET s == music.al_source
           detached == alSourcei_BUFFER(al_src, al_buf, s, 0)
       IN /\ al_buf' = alDeleteBuffers_n(detached, al_buf, music.al_buffers)
          /\ al_src' = alDeleteSources(detached, s)
    /\ returned' = Ret("Music::drop", "-", Music_get_state, "()")
    /\ UNCHANGED <<sf_info, sf_pos, music, sound, main, loops, qlog>>
    /\ UNCHANGED <<sf_handle, store_vars, ctx_vars, rec_vars, param_vars>>

\* one play() of a stereo file, pause() and stop() at any moment, and the
\* Music dropped at any moment between two calls
NextDrop ==
    \/ Music_new("shot.wav")
    \/ Music_play /\ MusicLive /\ Music_get_state = "Initial"
    \/ Music_play_seek
    \/ \E i \in {0, 1} : Music_play_fill(i)
    \/ Music_play_start
    \/ Music_pause /\ MusicLive
    \/ Music_stop /\ MusicLive
    \/ Music_stop_return
    \/ Music_drop
    \/ \E l \in LoopIds : Loop_tick(l)
    \/ \E l \in LoopIds : Loop_refill(l)
    \/ \E l \in LoopIds : Loop_detach(l)
    \/ \E s \in SourceIds : AlMix(s)

SpecDrop == InitExhaust /\ [][NextDrop]_vars

\* a task of the voice is between two of its steps
LoopRuns(l) == loops[l].pc \in {"sleep", "refill", "detach"}

\* C37: once a Music has been dropped, its source deleted, no refill task of
\* that voice is still running, so that no step of a task is ever taken on a
\* source or a buffer that was deleted.
C37_NoLoopOnDeletedSource ==
    MusicDropped => \A l \in LoopIds : ~LoopRuns(l)

\* init() of the task s is this step, and it reports the failure of
\* check_al_context
InitFails(s) ==
    /\ returned'.op = "init" /\ returned'.path = ScopeName(s)
    /\ returned'.res = "false"

\* C38: a check_al_context that fails leaves nothing behind: after the step
\* no device is open and no context is live that was not before it, the
\* current context is the one it was, and the task has nothing stored.
C38_FailedCheckLeavesNothing ==
    [][\A s \in ScopeIds :
          InitFails(s) =>
             /\ \A d \in DeviceIds :
                   /\ alc'.dev[d].state = "open" => alc.dev[d].state = "open"
                   /\ alc'.ctx[d].state = "live" => alc.ctx[d].state = "live"
             /\ alc'.current = alc.current
             /\ scopes'[s].stored = NoObj]_vars

====
